---- MODULE Spec2Model ----
(***************************************************************************)
(* Model of the dialogue codec (parse_ac_text / encode_ac_text), of the    *)
(* per-address ConversationState and of the watch_dialogue poll loop of    *)
(* src/ac_parser_encoder.py.                                               *)
(*                                                                         *)
(* A Python str is the tuple of its characters.  A printable ASCII         *)
(* character is the one-character string; any other character is named by  *)
(* its code point, "U+XXXX" ("U+000A" is the newline, "U+0060" the          *)
(* backquote).  A bytes object is a tuple of numbers in 0..255.  Python's   *)
(* 0-based index i is kept in the definitions; s[i+1] is the element        *)
(* Python calls s[i].                                                       *)
(***************************************************************************)
EXTENDS Integers, Sequences, FiniteSets, TLC

\* Python's None, where a str is optional: a value that no str equals.
None == <<"None">>

\* ---------------------------------------------------------------- tables

PREFIX_BYTE == 127

CHARACTER_MAP ==
    (0 :> <<"U+00A1">>) @@ (1 :> <<"U+00BF">>) @@ (2 :> <<"U+00C4">>) @@ (3 :> <<"U+00C0">>) @@ (4 :> <<"U+00C1">>) @@ (5 :> <<"U+00C2">>) @@
    (6 :> <<"U+00C3">>) @@ (7 :> <<"U+00C5">>) @@ (8 :> <<"U+00C7">>) @@ (9 :> <<"U+00C8">>) @@ (10 :> <<"U+00C9">>) @@ (11 :> <<"U+00CA">>) @@
    (12 :> <<"U+00CB">>) @@ (13 :> <<"U+00CC">>) @@ (14 :> <<"U+00CD">>) @@ (15 :> <<"U+00CE">>) @@ (16 :> <<"U+00CF">>) @@
    (17 :> <<"U+00D0">>) @@ (18 :> <<"U+00D1">>) @@ (19 :> <<"U+00D2">>) @@ (20 :> <<"U+00D3">>) @@ (21 :> <<"U+00D4">>) @@
    (22 :> <<"U+00D5">>) @@ (23 :> <<"U+00D6">>) @@ (24 :> <<"U+00D8">>) @@ (25 :> <<"U+00D9">>) @@ (26 :> <<"U+00DA">>) @@
    (27 :> <<"U+00DB">>) @@ (28 :> <<"U+00DC">>) @@ (29 :> <<"U+00DF">>) @@ (30 :> <<"U+00DE">>) @@ (31 :> <<"U+00E0">>) @@
    (32 :> <<" ">>) @@ (33 :> <<"!">>) @@ (34 :> <<"\"">>) @@ (35 :> <<"U+00E1">>) @@ (36 :> <<"U+00E2">>) @@
    (37 :> <<"%">>) @@ (38 :> <<"&">>) @@ (39 :> <<"'">>) @@ (40 :> <<"(">>) @@ (41 :> <<")">>) @@
    (42 :> <<"~">>) @@ (43 :> <<"U+2665">>) @@ (44 :> <<",">>) @@ (45 :> <<"-">>) @@ (46 :> <<".">>) @@
    (47 :> <<"U+266A">>) @@ (48 :> <<"0">>) @@ (49 :> <<"1">>) @@ (50 :> <<"2">>) @@ (51 :> <<"3">>) @@
    (52 :> <<"4">>) @@ (53 :> <<"5">>) @@ (54 :> <<"6">>) @@ (55 :> <<"7">>) @@ (56 :> <<"8">>) @@
    (57 :> <<"9">>) @@ (58 :> <<":">>) @@ (59 :> <<"U+1F322">>) @@ (60 :> <<"<">>) @@ (61 :> <<"=">>) @@
    (62 :> <<">">>) @@ (63 :> <<"?">>) @@ (64 :> <<"@">>) @@ (65 :> <<"A">>) @@ (66 :> <<"B">>) @@
    (67 :> <<"C">>) @@ (68 :> <<"D">>) @@ (69 :> <<"E">>) @@ (70 :> <<"F">>) @@ (71 :> <<"G">>) @@
    (72 :> <<"H">>) @@ (73 :> <<"I">>) @@ (74 :> <<"J">>) @@ (75 :> <<"K">>) @@ (76 :> <<"L">>) @@
    (77 :> <<"M">>) @@ (78 :> <<"N">>) @@ (79 :> <<"O">>) @@ (80 :> <<"P">>) @@ (81 :> <<"Q">>) @@
    (82 :> <<"R">>) @@ (83 :> <<"S">>) @@ (84 :> <<"T">>) @@ (85 :> <<"U">>) @@ (86 :> <<"V">>) @@
    (87 :> <<"W">>) @@ (88 :> <<"X">>) @@ (89 :> <<"Y">>) @@ (90 :> <<"Z">>) @@ (91 :> <<"U+00E3">>) @@
    (92 :> <<"U+1F4A2">>) @@ (93 :> <<"U+00E4">>) @@ (94 :> <<"U+00E5">>) @@ (95 :> <<"_">>) @@ (96 :> <<"U+00E7">>) @@
    (97 :> <<"a">>) @@ (98 :> <<"b">>) @@ (99 :> <<"c">>) @@ (100 :> <<"d">>) @@ (101 :> <<"e">>) @@
    (102 :> <<"f">>) @@ (103 :> <<"g">>) @@ (104 :> <<"h">>) @@ (105 :> <<"i">>) @@ (106 :> <<"j">>) @@
    (107 :> <<"k">>) @@ (108 :> <<"l">>) @@ (109 :> <<"m">>) @@ (110 :> <<"n">>) @@ (111 :> <<"o">>) @@
    (112 :> <<"p">>) @@ (113 :> <<"q">>) @@ (114 :> <<"r">>) @@ (115 :> <<"s">>) @@ (116 :> <<"t">>) @@
    (117 :> <<"u">>) @@ (118 :> <<"v">>) @@ (119 :> <<"w">>) @@ (120 :> <<"x">>) @@ (121 :> <<"y">>) @@
    (122 :> <<"z">>) @@ (123 :> <<"U+00E8">>) @@ (124 :> <<"U+00E9">>) @@ (125 :> <<"U+00EA">>) @@ (126 :> <<"U+00EB">>) @@
    (129 :> <<"U+00EC">>) @@ (130 :> <<"U+00ED">>) @@ (131 :> <<"U+00EE">>) @@ (132 :> <<"U+00EF">>) @@ (133 :> <<"U+2022">>) @@
    (134 :> <<"U+00F0">>) @@ (135 :> <<"U+00F1">>) @@ (136 :> <<"U+00F2">>) @@ (137 :> <<"U+00F3">>) @@ (138 :> <<"U+00F4">>) @@
    (139 :> <<"U+00F5">>) @@ (140 :> <<"U+00F6">>) @@ (141 :> <<"U+2070">>) @@ (142 :> <<"U+00F9">>) @@ (143 :> <<"U+00FA">>) @@
    (144 :> <<"U+30FC">>) @@ (145 :> <<"U+00FB">>) @@ (146 :> <<"U+00FC">>) @@ (147 :> <<"U+00FD">>) @@ (148 :> <<"U+00FF">>) @@
    (149 :> <<"U+00FE">>) @@ (150 :> <<"U+00DD">>) @@ (151 :> <<"U+00A6">>) @@ (152 :> <<"U+00A7">>) @@ (153 :> <<"a","U+0331">>) @@
    (154 :> <<"o","U+0331">>) @@ (155 :> <<"U+2016">>) @@ (156 :> <<"U+00B5">>) @@ (157 :> <<"U+00B3">>) @@ (158 :> <<"U+00B2">>) @@
    (159 :> <<"U+00B9">>) @@ (160 :> <<"U+00AF">>) @@ (161 :> <<"U+00AC">>) @@ (162 :> <<"U+00C6">>) @@ (163 :> <<"U+00E6">>) @@
    (164 :> <<"U+201E">>) @@ (165 :> <<"U+00BB">>) @@ (166 :> <<"U+00AB">>) @@ (167 :> <<"U+2600">>) @@ (168 :> <<"U+2601">>) @@
    (169 :> <<"U+2602">>) @@ (170 :> <<"U+1F32C">>) @@ (171 :> <<"U+2603">>) @@ (174 :> <<"/">>) @@ (175 :> <<"U+221E">>) @@
    (176 :> <<"U+25CB">>) @@ (177 :> <<"U+1F5D9">>) @@ (178 :> <<"U+25A1">>) @@ (179 :> <<"U+25B3">>) @@ (180 :> <<"+">>) @@
    (181 :> <<"U+26A1">>) @@ (182 :> <<"U+2642">>) @@ (183 :> <<"U+2640">>) @@ (184 :> <<"U+1F340">>) @@ (185 :> <<"U+2605">>) @@
    (186 :> <<"U+1F480">>) @@ (187 :> <<"U+1F62E">>) @@ (188 :> <<"U+1F604">>) @@ (189 :> <<"U+1F623">>) @@ (190 :> <<"U+1F620">>) @@
    (191 :> <<"U+1F603">>) @@ (192 :> <<"U+00D7">>) @@ (193 :> <<"U+00F7">>) @@ (194 :> <<"U+1F528">>) @@ (195 :> <<"U+1F380">>) @@
    (196 :> <<"U+2709">>) @@ (197 :> <<"U+1F4B0">>) @@ (198 :> <<"U+1F43E">>) @@ (199 :> <<"U+1F436">>) @@ (200 :> <<"U+1F431">>) @@
    (201 :> <<"U+1F430">>) @@ (202 :> <<"U+1F426">>) @@ (203 :> <<"U+1F42E">>) @@ (204 :> <<"U+1F437">>) @@ (205 :> <<"U+000A">>) @@
    (206 :> <<"U+1F41F">>) @@ (207 :> <<"U+1F41E">>) @@ (208 :> <<";">>) @@ (209 :> <<"#">>)

CONTROL_CODES ==
    (0 :> <<"<","E","n","d"," ","C","o","n","v","e","r","s","a","t","i","o","n",">">>) @@
    (1 :> <<"<","C","o","n","t","i","n","u","e",">">>) @@
    (2 :> <<"<","C","l","e","a","r"," ","T","e","x","t",">">>) @@
    (3 :> <<"<","P","a","u","s","e"," ","[","{",":","0","2","X","}","]",">">>) @@
    (4 :> <<"<","P","r","e","s","s"," ","A",">">>) @@
    (5 :> <<"<","C","o","l","o","r"," ","L","i","n","e"," ","[","{",":","0","6","X","}","]",">">>) @@
    (6 :> <<"<","I","n","s","t","a","n","t"," ","S","k","i","p",">">>) @@
    (7 :> <<"<","U","n","s","k","i","p","p","a","b","l","e",">">>) @@
    (8 :> <<"<","P","l","a","y","e","r"," ","E","m","o","t","i","o","n"," ","[","{",":","0","2","X","}","]"," ","[","{","}","]",">">>) @@
    (9 :> <<"<","N","P","C"," ","E","x","p","r","e","s","s","i","o","n"," ","[","C","a","t",":","{",":","0","2","X","}","]"," ","[","{","}","]",">">>) @@
    (10 :> <<"<","S","e","t"," ","D","e","m","o"," ","O","r","d","e","r"," ","[","{",":","0","2","X","}",","," ","{",":","0","2","X","}",","," ","{",":","0","2","X","}","]",">">>) @@
    (11 :> <<"<","S","e","t"," ","D","e","m","o"," ","O","r","d","e","r"," ","[","{",":","0","2","X","}",","," ","{",":","0","2","X","}",","," ","{",":","0","2","X","}","]",">">>) @@
    (12 :> <<"<","S","e","t"," ","D","e","m","o"," ","O","r","d","e","r"," ","[","{",":","0","2","X","}",","," ","{",":","0","2","X","}",","," ","{",":","0","2","X","}","]",">">>) @@
    (13 :> <<"<","O","p","e","n"," ","C","h","o","i","c","e"," ","M","e","n","u",">">>) @@
    (14 :> <<"<","S","e","t"," ","J","u","m","p"," ","[","{",":","0","4","X","}","]",">">>) @@
    (15 :> <<"<","C","h","o","i","c","e"," ","1"," ","J","u","m","p"," ","[","{",":","0","4","X","}","]",">">>) @@
    (16 :> <<"<","C","h","o","i","c","e"," ","2"," ","J","u","m","p"," ","[","{",":","0","4","X","}","]",">">>) @@
    (17 :> <<"<","C","h","o","i","c","e"," ","3"," ","J","u","m","p"," ","[","{",":","0","4","X","}","]",">">>) @@
    (18 :> <<"<","C","h","o","i","c","e"," ","4"," ","J","u","m","p"," ","[","{",":","0","4","X","}","]",">">>) @@
    (19 :> <<"<","R","a","n","d"," ","J","u","m","p"," ","2"," ","[","{",":","0","4","X","}",","," ","{",":","0","4","X","}","]",">">>) @@
    (20 :> <<"<","R","a","n","d"," ","J","u","m","p"," ","3"," ","[","{",":","0","4","X","}",","," ","{",":","0","4","X","}",","," ","{",":","0","4","X","}","]",">">>) @@
    (21 :> <<"<","R","a","n","d"," ","J","u","m","p"," ","4"," ","[","{",":","0","4","X","}",","," ","{",":","0","4","X","}",","," ","{",":","0","4","X","}",","," ","{",":","0","4","X","}","]",">">>) @@
    (22 :> <<"<","S","e","t"," ","2"," ","C","h","o","i","c","e","s"," ","[","{",":","0","4","X","}",","," ","{",":","0","4","X","}","]",">">>) @@
    (23 :> <<"<","S","e","t"," ","3"," ","C","h","o","i","c","e","s"," ","[","{",":","0","4","X","}",","," ","{",":","0","4","X","}",","," ","{",":","0","4","X","}","]",">">>) @@
    (24 :> <<"<","S","e","t"," ","4"," ","C","h","o","i","c","e","s"," ","[","{",":","0","4","X","}",","," ","{",":","0","4","X","}",","," ","{",":","0","4","X","}",","," ","{",":","0","4","X","}","]",">">>) @@
    (25 :> <<"<","F","o","r","c","e"," ","D","i","a","l","o","g"," ","S","w","i","t","c","h",">">>) @@
    (26 :> <<"<","P","l","a","y","e","r"," ","N","a","m","e",">">>) @@
    (27 :> <<"<","N","P","C"," ","N","a","m","e",">">>) @@
    (28 :> <<"<","C","a","t","c","h","p","h","r","a","s","e",">">>) @@
    (29 :> <<"<","Y","e","a","r",">">>) @@
    (30 :> <<"<","M","o","n","t","h",">">>) @@
    (31 :> <<"<","D","a","y"," ","o","f"," ","W","e","e","k",">">>) @@
    (32 :> <<"<","D","a","y",">">>) @@
    (33 :> <<"<","H","o","u","r",">">>) @@
    (34 :> <<"<","M","i","n","u","t","e",">">>) @@
    (35 :> <<"<","S","e","c","o","n","d",">">>) @@
    (36 :> <<"<","S","t","r","i","n","g"," ","0",">">>) @@
    (37 :> <<"<","S","t","r","i","n","g"," ","1",">">>) @@
    (38 :> <<"<","S","t","r","i","n","g"," ","2",">">>) @@
    (39 :> <<"<","S","t","r","i","n","g"," ","3",">">>) @@
    (40 :> <<"<","S","t","r","i","n","g"," ","4",">">>) @@
    (47 :> <<"<","T","o","w","n"," ","N","a","m","e",">">>) @@
    (80 :> <<"<","C","o","l","o","r"," ","[","{",":","0","6","X","}","]"," ","f","o","r"," ","[","{",":","0","2","X","}","]"," ","c","h","a","r","s",">">>) @@
    (83 :> <<"<","L","i","n","e"," ","T","y","p","e"," ","[","{",":","0","2","X","}","]",">">>) @@
    (84 :> <<"<","C","h","a","r"," ","S","i","z","e"," ","[","{",":","0","4","X","}","]",">">>) @@
    (86 :> <<"<","P","l","a","y"," ","M","u","s","i","c"," ","[","{","}","]"," ","[","{","}","]",">">>) @@
    (87 :> <<"<","S","t","o","p"," ","M","u","s","i","c"," ","[","{","}","]"," ","[","{","}","]",">">>) @@
    (89 :> <<"<","P","l","a","y"," ","S","o","u","n","d"," ","E","f","f","e","c","t"," ","[","{","}","]",">">>) @@
    (90 :> <<"<","L","i","n","e"," ","S","i","z","e"," ","[","{",":","0","4","X","}","]",">">>) @@
    (118 :> <<"<","A","M","/","P","M",">">>) @@
    (76 :> <<"<","A","n","g","r","y"," ","V","o","i","c","e",">">>)

CONTROL_CODES_ORDER ==
    <<0, 1, 2, 3, 4, 5, 6, 7, 8, 9, 10, 11, 12, 13, 14, 15, 16, 17, 18, 19, 20, 21, 22, 23, 24, 25, 26, 27, 28, 29, 30, 31, 32, 33, 34, 35, 36, 37, 38, 39, 40, 47, 80, 83, 84, 86, 87, 89, 90, 118, 76>>

CODE_ARG_COUNT ==
    (3 :> 1) @@ (5 :> 3) @@ (8 :> 3) @@ (9 :> 3) @@ (10 :> 3) @@ (11 :> 3) @@ (12 :> 3) @@
    (14 :> 2) @@ (15 :> 2) @@ (16 :> 2) @@ (17 :> 2) @@ (18 :> 2) @@ (19 :> 4) @@ (20 :> 6) @@
    (21 :> 8) @@ (22 :> 4) @@ (23 :> 6) @@ (24 :> 8) @@ (80 :> 4) @@ (83 :> 1) @@ (84 :> 2) @@
    (86 :> 2) @@ (87 :> 2) @@ (89 :> 1) @@ (90 :> 2)

EXPRESSION_MAP ==
    (0 :> <<"N","o","n","e","?">>) @@
    (1 :> <<"G","l","a","r","e">>) @@
    (2 :> <<"S","h","o","c","k","e","d">>) @@
    (3 :> <<"L","a","u","g","h">>) @@
    (4 :> <<"S","u","r","p","r","i","s","e","d">>) @@
    (5 :> <<"A","n","g","r","y">>) @@
    (6 :> <<"E","x","c","i","t","e","d">>) @@
    (7 :> <<"W","o","r","r","i","e","d">>) @@
    (8 :> <<"S","c","a","r","e","d">>) @@
    (9 :> <<"C","r","y">>) @@
    (10 :> <<"H","a","p","p","y">>) @@
    (11 :> <<"W","o","n","d","e","r","i","n","g">>) @@
    (12 :> <<"I","d","e","a">>) @@
    (13 :> <<"S","a","d">>) @@
    (14 :> <<"H","a","p","p","y"," ","D","a","n","c","e">>) @@
    (15 :> <<"T","h","i","n","k","i","n","g">>) @@
    (16 :> <<"D","e","p","r","e","s","s","e","d">>) @@
    (17 :> <<"H","e","a","r","t","b","r","o","k","e","n">>) @@
    (18 :> <<"S","i","n","i","s","t","e","r">>) @@
    (19 :> <<"T","i","r","e","d">>) @@
    (20 :> <<"L","o","v","e">>) @@
    (21 :> <<"S","m","i","l","e">>) @@
    (22 :> <<"S","c","o","w","l">>) @@
    (23 :> <<"F","r","o","w","n">>) @@
    (24 :> <<"L","a","u","g","h","i","n","g"," ","(","S","i","t","t","i","n","g",")">>) @@
    (25 :> <<"S","h","o","c","k","e","d"," ","(","S","i","t","t","i","n","g",")">>) @@
    (26 :> <<"I","d","e","a"," ","(","S","i","t","t","i","n","g",")">>) @@
    (27 :> <<"S","u","r","p","r","i","s","e","d"," ","(","S","i","t","t","i","n","g",")">>) @@
    (28 :> <<"A","n","g","r","y"," ","(","S","i","t","t","i","n","g",")">>) @@
    (29 :> <<"S","m","i","l","e"," ","(","S","i","t","t","i","n","g",")">>) @@
    (30 :> <<"F","r","o","w","n"," ","(","S","i","t","t","i","n","g",")">>) @@
    (31 :> <<"W","o","n","d","e","r","i","n","g"," ","(","S","i","t","t","i","n","g",")">>) @@
    (32 :> <<"S","a","l","u","t","e">>) @@
    (33 :> <<"A","n","g","r","y"," ","(","R","e","s","e","t","t","i",")">>) @@
    (34 :> <<"R","e","s","e","t"," ","E","x","p","r","e","s","s","i","o","n","s"," ","(","R","e","s","e","t","t","i",")">>) @@
    (35 :> <<"S","a","d"," ","(","R","e","s","e","t","t","i",")">>) @@
    (36 :> <<"E","x","c","i","t","e","m","e","n","t"," ","(","R","e","s","e","t","t","i",")">>) @@
    (37 :> <<"J","a","w"," ","D","r","o","p"," ","(","R","e","s","e","t","t","i",")">>) @@
    (38 :> <<"A","n","n","o","y","e","d"," ","(","R","e","s","e","t","t","i",")">>) @@
    (39 :> <<"F","u","r","i","o","u","s"," ","(","R","e","s","e","t","t","i",")">>) @@
    (40 :> <<"S","u","r","p","r","i","s","e","d"," ","(","K",".","K",".",")">>) @@
    (41 :> <<"F","o","r","t","u","n","e">>) @@
    (42 :> <<"S","m","i","l","e"," ","(","R","e","s","e","t","t","i",")">>) @@
    (253 :> <<"R","e","s","e","t"," ","E","x","p","r","e","s","s","i","o","n","s"," ","(","K",".","K",".",")">>) @@
    (254 :> <<"R","e","s","e","t"," ","E","x","p","r","e","s","s","i","o","n","s"," ","(","S","i","t","t","i","n","g",")">>) @@
    (255 :> <<"R","e","s","e","t"," ","E","x","p","r","e","s","s","i","o","n","s">>)

MUSIC_TRANSITIONS ==
    (0 :> <<"N","o","n","e">>) @@
    (1 :> <<"U","n","d","e","t","e","r","m","i","n","e","d">>) @@
    (2 :> <<"F","a","d","e">>)

SOUNDEFFECT_LIST ==
    (0 :> <<"B","e","l","l"," ","T","r","a","n","s","a","c","t","i","o","n">>) @@
    (1 :> <<"H","a","p","p","y">>) @@
    (2 :> <<"V","e","r","y"," ","H","a","p","p","y">>) @@
    (3 :> <<"V","a","r","i","a","b","l","e"," ","0">>) @@
    (4 :> <<"V","a","r","i","a","b","l","e"," ","1">>) @@
    (5 :> <<"A","n","n","o","y","e","d">>) @@
    (6 :> <<"T","h","u","n","d","e","r">>) @@
    (7 :> <<"N","o","n","e">>)

MUSIC_LIST ==
    (0 :> <<"S","i","l","e","n","c","e">>) @@
    (1 :> <<"A","r","r","i","v","i","n","g"," ","i","n"," ","T","o","w","n">>) @@
    (2 :> <<"H","o","u","s","e"," ","S","e","l","e","c","t","i","o","n">>) @@
    (3 :> <<"H","o","u","s","e"," ","S","e","l","e","c","t","e","d">>) @@
    (4 :> <<"H","o","u","s","e"," ","S","e","l","e","c","t","e","d"," ","(","2",")">>) @@
    (5 :> <<"R","e","s","e","t","t","i">>) @@
    (6 :> <<"C","u","r","r","e","n","t"," ","H","o","u","r","l","y"," ","M","u","s","i","c">>) @@
    (7 :> <<"R","e","s","e","t","t","i"," ","(","2",")">>) @@
    (8 :> <<"D","o","n"," ","R","e","s","e","t","t","i">>)

PLAYER_EMOTIONS ==
    (2 :> <<"S","u","r","p","r","i","s","e","d">>) @@
    (253 :> <<"P","u","r","p","l","e"," ","M","i","s","t">>) @@
    (254 :> <<"S","c","a","r","e","d">>) @@
    (255 :> <<"R","e","s","e","t"," ","E","m","o","t","i","o","n">>)


\* A local variable: Body of the value it is bound to
With(value, Body(_)) == Body(value)

\* REVERSE_CHARACTER_MAP.get(char): the dict comprehension keeps, for a value
\* that occurs twice, the last key.
REVERSE_CHARACTER_MAP_get(char) ==
    With({b \in DOMAIN CHARACTER_MAP : CHARACTER_MAP[b] = <<char>>},
         LAMBDA keys :
             IF keys = {} THEN -1
             ELSE CHOOSE b \in keys : \A c \in keys : c <= b)

\* ------------------------------------------------------------ str helpers

RECURSIVE Concat(_)
\* "".join(parts)
Concat(parts) ==
    IF parts = <<>> THEN <<>>
    ELSE IF Len(parts) = 1 THEN parts[1]
    ELSE LET half == Len(parts) \div 2
         IN  Concat(SubSeq(parts, 1, half))
                 \o Concat(SubSeq(parts, half + 1, Len(parts)))

\* s[a:b] for 0 <= a, as Python clips it
Slice(s, a, b) ==
    SubSeq(s, a + 1, IF b > Len(s) THEN Len(s) ELSE b)

\* s.find(sub, start): the first index >= start where sub occurs, or -1
Find(s, sub, start) ==
    LET hits == {i \in start..(Len(s) - Len(sub)) :
                    SubSeq(s, i + 1, i + Len(sub)) = sub}
    IN  IF hits = {} THEN -1
        ELSE CHOOSE i \in hits : \A j \in hits : i <= j

\* sub in s
Contains(s, sub) == Find(s, sub, 0) >= 0

HexDigits == <<"0","1","2","3","4","5","6","7","8","9","A","B","C","D","E","F">>

RECURSIVE HexStr(_)
\* format(n, "X")
HexStr(n) ==
    IF n < 16 THEN <<HexDigits[n + 1]>>
    ELSE HexStr(n \div 16) \o <<HexDigits[(n % 16) + 1]>>

RECURSIVE DecStr(_)
\* str(n), n >= 0
DecStr(n) ==
    IF n < 10 THEN <<HexDigits[n + 1]>>
    ELSE DecStr(n \div 10) \o <<HexDigits[(n % 10) + 1]>>

\* s.zfill(w)
ZFill(s, w) ==
    IF Len(s) >= w THEN s ELSE [k \in 1..(w - Len(s)) |-> "0"] \o s

\* An argument of str.format: an int or a str.
IntArg(n) == [int |-> TRUE, n |-> n, s |-> <<>>]
StrArg(s) == [int |-> FALSE, n |-> 0, s |-> s]

\* One replacement field of a format string, spec being the text between the
\* braces: "" is str(arg); ":0wX" is upper-case hex padded to w, which raises
\* ValueError for a str.
FormatField(spec, arg) ==
    IF spec = <<>> THEN
        [kind |-> "ok", text |-> IF arg.int THEN DecStr(arg.n) ELSE arg.s]
    ELSE IF ~arg.int THEN [kind |-> "ValueError", text |-> <<>>]
    ELSE [kind |-> "ok",
          text |-> ZFill(HexStr(arg.n),
                         CHOOSE w \in 0..9 : HexDigits[w + 1] = spec[3])]

RECURSIVE FormatFrom(_, _, _, _)
\* desc.format(*args) from index i on, k arguments used so far; a field with
\* no argument left raises IndexError.
FormatFrom(desc, i, args, k) ==
    LET open == Find(desc, <<"{">>, i)
        close == Find(desc, <<"}">>, open)
    IN  IF open = -1
        THEN [kind |-> "ok", text |-> Slice(desc, i, Len(desc))]
        ELSE IF k >= Len(args) THEN [kind |-> "IndexError", text |-> <<>>]
        ELSE
            LET f == FormatField(Slice(desc, open + 1, close), args[k + 1])
                rest == FormatFrom(desc, close + 1, args, k + 1)
            IN  IF f.kind # "ok" THEN f
                ELSE IF rest.kind # "ok" THEN rest
                ELSE [kind |-> "ok",
                      text |-> Slice(desc, i, open) \o f.text \o rest.text]

\* desc.format(*args_tuple)
Format(desc, args) == FormatFrom(desc, 0, args, 0)

\* int.from_bytes(bs, 'big'), struct.unpack('>H', bs)[0]
RECURSIVE FromBytesBig(_)
FromBytesBig(bs) ==
    IF bs = <<>> THEN 0
    ELSE FromBytesBig(SubSeq(bs, 1, Len(bs) - 1)) * 256 + bs[Len(bs)]

\* ------------------------------------------------------------ parse_ac_text

\* d.get(key, default) for the display sub-tables
TableGet(table, key, default) ==
    IF key \in DOMAIN table THEN table[key] ELSE default

\* The result of a call: a value, or an exception that leaves the function.
Returned(v) == [raised |-> FALSE, value |-> v]
Raised == [raised |-> TRUE, value |-> <<>>]

\* data[i], which raises IndexError past the end
GetItem(data, i) ==
    IF i < Len(data) THEN Returned(data[i + 1]) ELSE Raised

\* The opcode after the prefix byte at index i - 1: none when the buffer ends
\* with the prefix byte.
ReadCommandUnchecked(data, i) == GetItem(data, i)

ReadCommand(data, i) ==
    IF i >= Len(data) THEN [raised |-> FALSE, value |-> -1]
    ELSE GetItem(data, i)

\* The argument values of a control code, as the branches of the parser lay
\* them out.
ArgsTuple(command, num_args, args_bytes) ==
    IF command \in {8, 9} THEN
        LET first_arg == args_bytes[1]
            val == FromBytesBig(SubSeq(args_bytes, 2, 3))
            name == IF command = 9
                    THEN TableGet(EXPRESSION_MAP, val,
                                  <<"U","n","k","n","o","w","n","_">> \o ZFill(HexStr(val), 4))
                    ELSE TableGet(PLAYER_EMOTIONS, val,
                                  <<"U","n","k","n","o","w","n","_","E","m","o","t","i","o","n","_">> \o ZFill(HexStr(val), 4))
        IN  <<IntArg(first_arg), StrArg(name)>>
    ELSE IF command \in {86, 87} THEN
        LET music_id == args_bytes[1]
            transition_type == args_bytes[2]
        IN  <<StrArg(TableGet(MUSIC_LIST, music_id,
                              <<"U","n","k","n","o","w","n","_","M","u","s","i","c","_">> \o ZFill(HexStr(music_id), 2))),
              StrArg(TableGet(MUSIC_TRANSITIONS, transition_type,
                              <<"U","n","k","n","o","w","n","_","T","r","a","n","s","i","t","i","o","n","_">>
                                  \o ZFill(HexStr(transition_type), 2)))>>
    ELSE IF num_args = 1 THEN
        IF command = 89
        THEN <<StrArg(TableGet(SOUNDEFFECT_LIST, args_bytes[1],
                               <<"U","n","k","n","o","w","n","_","S","o","u","n","d","_">>
                                   \o ZFill(HexStr(args_bytes[1]), 2)))>>
        ELSE <<IntArg(args_bytes[1])>>
    ELSE IF num_args = 2 THEN <<IntArg(FromBytesBig(args_bytes))>>
    ELSE IF num_args = 3 /\ command = 5 THEN <<IntArg(FromBytesBig(args_bytes))>>
    ELSE IF num_args = 3 THEN
        <<IntArg(args_bytes[1]), IntArg(args_bytes[2]), IntArg(args_bytes[3])>>
    ELSE IF num_args = 4 /\ command = 80 THEN
        <<IntArg(FromBytesBig(SubSeq(args_bytes, 1, 3))), IntArg(args_bytes[4])>>
    ELSE
        [j \in 1..(num_args \div 2) |->
            IntArg(FromBytesBig(SubSeq(args_bytes, 2 * j - 1, 2 * j)))]

\* The byte that ends the text
IsTerminatorNever(byte) == FALSE

IsTerminator(byte) == byte = 0

\* What is written for a control code whose arguments are cut short
MalformedCodeDropped(command) == <<>>

MalformedCode(command) ==
    <<"<","M","a","l","f","o","r","m","e","d"," ","C","o","d","e"," ","0","x">> \o ZFill(HexStr(command), 2) \o <<">">>

RECURSIVE ParseLoop(_, _, _)
\* The while loop of parse_ac_text from index i, text_buffer being joined.
ParseLoop(data, i, text_buffer) ==
    IF i >= Len(data) THEN Returned(text_buffer)
    ELSE IF IsTerminator(data[i + 1]) THEN Returned(text_buffer)
    ELSE IF data[i + 1] = PREFIX_BYTE THEN
        LET rc == ReadCommand(data, i + 1)
            command == rc.value
        IN  IF rc.raised THEN Raised
            ELSE IF command = -1 THEN Returned(text_buffer)
            ELSE IF command = 0
            THEN Returned(text_buffer \o CONTROL_CODES[command])
            ELSE
                LET desc == TableGet(CONTROL_CODES, command,
                                     <<"<","C","o","d","e"," ","0","x">> \o ZFill(HexStr(command), 2)
                                         \o <<">">>)
                    num_args == TableGet(CODE_ARG_COUNT, command, 0)
                    args_bytes == Slice(data, i + 2, i + 2 + num_args)
                IN  IF num_args > 0 THEN
                        IF Len(args_bytes) < num_args
                        THEN ParseLoop(data, i + 2 + Len(args_bytes),
                                 text_buffer \o MalformedCode(command))
                        ELSE
                            With(Format(desc, ArgsTuple(command, num_args,
                                                        args_bytes)),
                                 LAMBDA f :
                                     IF f.kind = "ValueError" THEN Raised
                                     ELSE ParseLoop(data, i + 2 + num_args,
                                              text_buffer
                                                  \o (IF f.kind = "ok"
                                                      THEN f.text ELSE desc)))
                    ELSE ParseLoop(data, i + 2, text_buffer \o desc)
    ELSE ParseLoop(data, i + 1,
             text_buffer \o TableGet(CHARACTER_MAP, data[i + 1],
                                 <<"[","?">> \o ZFill(HexStr(data[i + 1]), 2) \o <<"]">>))

\* parse_ac_text(data): the decoded text, or an exception
parse_ac_text(data) == ParseLoop(data, 0, <<>>)

\* ------------------------------------------------------------------- re
\* The regular expressions of the source, as data, and Python's matcher over
\* them.  Every pattern of the source is a concatenation of atoms; an atom is
\*   Cls(S, min, max, greedy)     [S]{min,max}, max = -1 for no limit, lazy
\*   NotCls(S, min, max, greedy)  [^S]{min,max}     when greedy is FALSE
\*   Lit(s), LitI(s)       the characters of s (LitI: under re.IGNORECASE)
\*   OptLit(s)             (?:s)?
\*   GrpOpen(n), GrpClose(n)   the parentheses of capturing group n
\*   Bol, Eol              ^ and $ (no MULTILINE)

Cls(S, min, max, greedy) ==
    [t |-> "cls", neg |-> FALSE, set |-> S, min |-> min, max |-> max,
     greedy |-> greedy]
NotCls(S, min, max, greedy) ==
    [t |-> "cls", neg |-> TRUE, set |-> S, min |-> min, max |-> max,
     greedy |-> greedy]
Lit(s) == [t |-> "lit", s |-> s, icase |-> FALSE, min |-> 1, greedy |-> TRUE]
LitI(s) == [t |-> "lit", s |-> s, icase |-> TRUE, min |-> 1, greedy |-> TRUE]
OptLit(s) == [t |-> "lit", s |-> s, icase |-> FALSE, min |-> 0, greedy |-> TRUE]
GrpOpen(n) == [t |-> "open", n |-> n, greedy |-> TRUE]
GrpClose(n) == [t |-> "close", n |-> n, greedy |-> TRUE]
Bol == [t |-> "bol", greedy |-> TRUE]
Eol == [t |-> "eol", greedy |-> TRUE]

AsciiUpper == <<"A","B","C","D","E","F","G","H","I","J","K","L","M","N","O","P","Q","R","S","T","U","V","W","X","Y","Z">>
AsciiLower == <<"a","b","c","d","e","f","g","h","i","j","k","l","m","n","o","p","q","r","s","t","u","v","w","x","y","z">>
Range(s) == {s[k] : k \in 1..Len(s)}

Min(S) == CHOOSE x \in S : \A y \in S : x <= y
Max(S) == CHOOSE x \in S : \A y \in S : y <= x

\* Both cases of an ASCII letter, the character itself otherwise
BothCases(c) ==
    {c} \cup {AsciiLower[k] : k \in {j \in 1..26 : AsciiUpper[j] = c}}
        \cup {AsciiUpper[k] : k \in {j \in 1..26 : AsciiLower[j] = c}}

\* The characters str.isspace() and \s accept
Whitespace ==
    {" ", "U+0009", "U+000A", "U+000B", "U+000C", "U+000D", "U+001C",
     "U+001D", "U+001E", "U+001F", "U+0085", "U+00A0", "U+1680", "U+2000",
     "U+2001", "U+2002", "U+2003", "U+2004", "U+2005", "U+2006", "U+2007",
     "U+2008", "U+2009", "U+200A", "U+2028", "U+2029", "U+202F", "U+205F",
     "U+3000"}
Digits == Range(<<"0","1","2","3","4","5","6","7","8","9">>)
HexClass == Digits \cup Range(<<"A","B","C","D","E","F">>) \cup Range(<<"a","b","c","d","e","f">>)

\* \s+, \s*, [^>]+
ReSpaces == Cls(Whitespace, 1, -1, TRUE)
ReOptSpaces == Cls(Whitespace, 0, -1, TRUE)
ReNotGtPlus == NotCls({">"}, 1, -1, TRUE)

\* No group has matched: every group's span is <<-1, -1>>.
NoGroups == [n \in 1..3 |-> [s |-> -1, e |-> -1, o |-> -1]]
NoMatch == [ok |-> FALSE, s |-> -1, e |-> -1, g |-> NoGroups]

\* Whether character c is in the class of atom a
InClass(a, c) == (c \in a.set) # a.neg

\* How many characters from index i on are in the class of a, at most a.max
ClassRun(a, str, i) ==
    LET most == IF a.max = -1 \/ a.max > Len(str) - i
                THEN Len(str) - i ELSE a.max
    IN  CHOOSE n \in 0..most :
            /\ \A j \in 1..n : InClass(a, str[i + j])
            /\ n = most \/ ~InClass(a, str[i + n + 1])

\* Whether the literal of atom a stands at index i
LitAt(a, str, i) ==
    /\ i + Len(a.s) <= Len(str)
    /\ \A j \in 1..Len(a.s) :
           IF a.icase THEN str[i + j] \in BothCases(a.s[j])
           ELSE str[i + j] = a.s[j]

\* The indexes where atom a, begun at index i, can end
AtomEnds(a, str, i) ==
    CASE a.t = "cls" -> {i + c : c \in a.min..ClassRun(a, str, i)}
      [] a.t = "lit" ->
            (IF LitAt(a, str, i) THEN {i + Len(a.s)} ELSE {})
                \cup (IF a.min = 0 THEN {i} ELSE {})
      [] a.t = "bol" -> IF i = 0 THEN {i} ELSE {}
      [] a.t = "eol" ->
            IF i = Len(str) \/ (i = Len(str) - 1 /\ str[Len(str)] = "U+000A")
            THEN {i} ELSE {}
      [] OTHER -> {i}

RECURSIVE ForwardSets(_, _, _, _)
\* <<F[j], ..., F[Len(re)]>>, F[n] being the indexes that atoms 1..n can reach
\* from the start of the match, given from = F[j - 1]
ForwardSets(re, str, j, from) ==
    IF j > Len(re) THEN <<>>
    ELSE IF from = {} THEN [n \in 1..(Len(re) - j + 1) |-> {}]
    ELSE With(UNION {AtomEnds(re[j], str, i) : i \in from},
              LAMBDA ends : <<ends>> \o ForwardSets(re, str, j + 1, ends))

RECURSIVE ViableSets(_, _, _, _)
\* <<V[j], ..., V[Len(re)]>>, V[n] being the indexes of F[n] from which atoms
\* n+1.. can be matched to the end of the pattern
ViableSets(re, str, F, j) ==
    IF j >= Len(re) THEN <<F[Len(re)]>>
    ELSE LET rest == ViableSets(re, str, F, j + 1)
         IN  <<{i \in F[j] : AtomEnds(re[j + 1], str, i) \cap rest[1] # {}}>>
                 \o rest

RECURSIVE Walk(_, _, _, _, _, _)
\* The match the backtracking matcher finds first: each atom in turn takes
\* its preferred end (the longest for a greedy atom, the shortest for a lazy
\* one) among those from which the rest of the pattern still matches.
Walk(re, str, V, j, i, g) ==
    IF j > Len(re) THEN [ok |-> TRUE, s |-> -1, e |-> i, g |-> g]
    ELSE
        LET a == re[j]
            g1 == CASE a.t = "open" -> [g EXCEPT ![a.n].o = i]
                    [] a.t = "close" ->
                          [g EXCEPT ![a.n].s = g[a.n].o, ![a.n].e = i]
                    [] OTHER -> g
        IN  With(AtomEnds(a, str, i) \cap V[j],
                 LAMBDA ends :
                     IF ends = {} THEN NoMatch
                     ELSE Walk(re, str, V, j + 1,
                               IF a.greedy THEN Max(ends) ELSE Min(ends), g1))

\* Whether pattern.match(str, i) succeeds
Matches(re, str, i) == ForwardSets(re, str, 1, {i})[Len(re)] # {}

\* pattern.match(str, i)
MatchAt(re, str, i) ==
    With(ForwardSets(re, str, 1, {i}),
         LAMBDA F :
             IF F[Len(re)] = {} THEN NoMatch
             ELSE [Walk(re, str, ViableSets(re, str, F, 1), 1, i, NoGroups)
                       EXCEPT !.s = i])

\* pattern.search(str, i): the leftmost match
Search(re, str, i) ==
    With({j \in i..Len(str) : Matches(re, str, j)},
         LAMBDA starts :
             IF starts = {} THEN NoMatch ELSE MatchAt(re, str, Min(starts)))

RECURSIVE FindAll(_, _, _)
\* pattern.finditer(str): the successive matches, left to right, none
\* overlapping (no pattern of the source matches the empty string)
FindAll(re, str, i) ==
    With(Search(re, str, i),
         LAMBDA m : IF ~m.ok THEN <<>> ELSE <<m>> \o FindAll(re, str, m.e))

\* match.group(n), "" for a group that took no part
Group(str, m, n) ==
    IF m.g[n].s = -1 THEN <<>> ELSE Slice(str, m.g[n].s, m.g[n].e)
Group0(str, m) == Slice(str, m.s, m.e)

\* re.sub(pattern, repl, str), ms being the matches and Repl(m) the text that
\* replaces match m
SubMatches(str, ms, Repl(_)) ==
    Concat([k \in 1..Len(ms) |->
                Slice(str, IF k = 1 THEN 0 ELSE ms[k - 1].e, ms[k].s)
                    \o Repl(ms[k])])
        \o Slice(str, IF ms = <<>> THEN 0 ELSE ms[Len(ms)].e, Len(str))

\* s.lstrip(), s.rstrip()
LStrip(s) ==
    LET n == CHOOSE n \in 0..Len(s) :
                 /\ \A j \in 1..n : s[j] \in Whitespace
                 /\ n = Len(s) \/ s[n + 1] \notin Whitespace
    IN  SubSeq(s, n + 1, Len(s))
RStrip(s) ==
    LET n == CHOOSE n \in 0..Len(s) :
                 /\ \A j \in 1..n : s[Len(s) + 1 - j] \in Whitespace
                 /\ n = Len(s) \/ s[Len(s) - n] \notin Whitespace
    IN  SubSeq(s, 1, Len(s) - n)
\* s.strip()
Strip(s) == LStrip(RStrip(s))

\* ------------------------------------------------- menu injection helpers

FEELING_CHATTY_LABEL == <<"F","e","e","l","i","n","g"," ","c","h","a","t","t","y">>
END_CONVERSATION == <<"<","E","n","d"," ","C","o","n","v","e","r","s","a","t","i","o","n",">">>
OPEN_CHOICE_MENU == <<"<","O","p","e","n"," ","C","h","o","i","c","e"," ","M","e","n","u",">">>

\* <[^>]+>
CONTROL_TAG_RE == <<Lit(<<"<">>), ReNotGtPlus, Lit(<<">">>)>>

\* (<Open Choice Menu>)([\s\S]*?)(<Choice 1 Jump \[[0-9A-F]{4}\]>), IGNORECASE
CHOICE_ONE_PATTERN ==
    <<GrpOpen(1), LitI(<<"<","O","p","e","n"," ","C","h","o","i","c","e"," ","M","e","n","u",">">>), GrpClose(1),
      GrpOpen(2), NotCls({}, 0, -1, FALSE), GrpClose(2),
      GrpOpen(3), LitI(<<"<","C","h","o","i","c","e"," ","1"," ","J","u","m","p"," ","[">>), Cls(HexClass, 4, 4, TRUE),
      LitI(<<"]",">">>), GrpClose(3)>>

EmptyRepl(m) == <<>>

\* _strip_control_codes(text)
strip_control_codes(text) ==
    SubMatches(text, FindAll(CONTROL_TAG_RE, text, 0), EmptyRepl)

\* _replacement(match) of _inject_feeling_chatty_option
InjectReplacement(text, m) ==
    With(Group(text, m, 2),
         LAMBDA between :
             Group(text, m, 1)
                 \o Group0(between,
                           MatchAt(<<Bol, ReOptSpaces>>, between, 0))
                 \o FEELING_CHATTY_LABEL
                 \o Group0(between,
                           Search(<<ReOptSpaces, Eol>>, between, 0))
                 \o Group(text, m, 3))

\* _inject_feeling_chatty_option(text): None when the pattern is not found,
\* else text with the first match replaced
inject_feeling_chatty_option(text) ==
    With(Search(CHOICE_ONE_PATTERN, text, 0),
         LAMBDA m :
             IF ~m.ok THEN None
             ELSE Slice(text, 0, m.s) \o InjectReplacement(text, m)
                      \o Slice(text, m.e, Len(text)))

\* ------------------------------------------------- REVERSE_* lookup tables

\* REVERSE_CHARACTER_MAP = {v: k for k, v in CHARACTER_MAP.items()}: a glyph
\* that two bytes share keeps the later byte.
REVERSE_CHARACTER_MAP ==
    [v \in {CHARACTER_MAP[k] : k \in DOMAIN CHARACTER_MAP} |->
        Max({k \in DOMAIN CHARACTER_MAP : CHARACTER_MAP[k] = v})]

\* \[.*?\]
BRACKET_RE == <<Lit(<<"[">>), NotCls({"U+000A"}, 0, -1, FALSE), Lit(<<"]">>)>>

BracketRepl(m) == <<"[","{","}","]">>

\* re.sub(r'\[.*?\]', '[{}]', tag)
BaseTag(tag) == SubMatches(tag, FindAll(BRACKET_RE, tag, 0), BracketRepl)

\* The keys of REVERSE_CONTROL_CODES that come from CONTROL_CODES
ReverseKeyOf == [k \in DOMAIN CONTROL_CODES |-> BaseTag(CONTROL_CODES[k])]

\* REVERSE_CONTROL_CODES.get(base_tag), -1 for None: the two entries of the
\* update() win, then the last item of CONTROL_CODES with that key.
REVERSE_CONTROL_CODES_get(base_tag) ==
    IF base_tag = <<"<","N","P","C"," ","E","x","p","r","e","s","s","i","o","n"," ","[","{","}","]"," ","[","{","}","]",">">> THEN 9
    ELSE IF base_tag = <<"<","P","l","a","y","e","r"," ","E","m","o","t","i","o","n"," ","[","{","}","]"," ","[","{","}","]",">">> THEN 8
    ELSE
        With({n \in 1..Len(CONTROL_CODES_ORDER) :
                 ReverseKeyOf[CONTROL_CODES_ORDER[n]] = base_tag},
             LAMBDA at : IF at = {} THEN -1 ELSE CONTROL_CODES_ORDER[Max(at)])

\* ------------------------------------------------ _normalize_control_tags

\* s.upper(), for the hex digits the patterns capture
UpperChar(c) ==
    IF \E j \in 1..26 : AsciiLower[j] = c
    THEN AsciiUpper[CHOOSE j \in 1..26 : AsciiLower[j] = c]
    ELSE c
Upper(s) == [k \in 1..Len(s) |-> UpperChar(s[k])]

ReHex(min, max) == Cls(HexClass, min, max, TRUE)
ReOptOpen == OptLit(<<"[">>)
ReOptClose == OptLit(<<"]">>)

\* </[^>]+>
CLOSING_TAG_RE == <<Lit(<<"<","/">>), ReNotGtPlus, Lit(<<">">>)>>

\* <NPC\s+Expression\s+\[?(?:Cat:)?([0-9A-Fa-f]{1,2})\]?\s+\[?([0-9A-Fa-f]{1,4})\]?>
NPC_EXPRESSION_RE ==
    <<Lit(<<"<","N","P","C">>), ReSpaces, Lit(<<"E","x","p","r","e","s","s","i","o","n">>), ReSpaces, ReOptOpen,
      OptLit(<<"C","a","t",":">>), GrpOpen(1), ReHex(1, 2), GrpClose(1), ReOptClose,
      ReSpaces, ReOptOpen, GrpOpen(2), ReHex(1, 4), GrpClose(2), ReOptClose,
      Lit(<<">">>)>>

\* <Player\s+Emotion\s+\[?([0-9A-Fa-f]{1,2})\]?\s+\[?([0-9A-Fa-f]{1,4})\]?>
PLAYER_EMOTION_RE ==
    <<Lit(<<"<","P","l","a","y","e","r">>), ReSpaces, Lit(<<"E","m","o","t","i","o","n">>), ReSpaces, ReOptOpen,
      GrpOpen(1), ReHex(1, 2), GrpClose(1), ReOptClose, ReSpaces,
      ReOptOpen, GrpOpen(2), ReHex(1, 4), GrpClose(2), ReOptClose,
      Lit(<<">">>)>>

\* <(name)\s+([0-9A-Fa-f]{1,width})>
BareArgRe(name, width) ==
    <<Lit(<<"<">>), GrpOpen(1), Lit(name), GrpClose(1), ReSpaces,
      GrpOpen(2), ReHex(1, width), GrpClose(2), Lit(<<">">>)>>

\* <Color\s+\[?([0-9A-Fa-f]{6})\]?\s+for\s+\[?([0-9A-Fa-f]{1,2})\]?>
COLOR_FOR_RE ==
    <<Lit(<<"<","C","o","l","o","r">>), ReSpaces, ReOptOpen, GrpOpen(1), ReHex(6, 6),
      GrpClose(1), ReOptClose, ReSpaces, Lit(<<"f","o","r">>), ReSpaces, ReOptOpen,
      GrpOpen(2), ReHex(1, 2), GrpClose(2), ReOptClose, Lit(<<">">>)>>

\* <Color\s+\[?([0-9A-Fa-f]{6})\]?\s+for\s+\[?([0-9A-Fa-f]{1,2})\]?\s+chars?>
COLOR_FOR_CHARS_RE ==
    <<Lit(<<"<","C","o","l","o","r">>), ReSpaces, ReOptOpen, GrpOpen(1), ReHex(6, 6),
      GrpClose(1), ReOptClose, ReSpaces, Lit(<<"f","o","r">>), ReSpaces, ReOptOpen,
      GrpOpen(2), ReHex(1, 2), GrpClose(2), ReOptClose, ReSpaces,
      Lit(<<"c","h","a","r">>), OptLit(<<"s">>), Lit(<<">">>)>>

\* <Color\s+Line\s+\[?([0-9A-Fa-f]{6})\]?>
COLOR_LINE_RE ==
    <<Lit(<<"<","C","o","l","o","r">>), ReSpaces, Lit(<<"L","i","n","e">>), ReSpaces, ReOptOpen,
      GrpOpen(1), ReHex(6, 6), GrpClose(1), ReOptClose, Lit(<<">">>)>>

\* <Color\s+([0-9A-Fa-f]{6})>
COLOR_BARE_RE ==
    <<Lit(<<"<","C","o","l","o","r">>), ReSpaces, GrpOpen(1), ReHex(6, 6), GrpClose(1),
      Lit(<<">">>)>>

\* <Color\s+\[([0-9A-Fa-f]{6})\]>
COLOR_BRACKET_RE ==
    <<Lit(<<"<","C","o","l","o","r">>), ReSpaces, Lit(<<"[">>), GrpOpen(1), ReHex(6, 6),
      GrpClose(1), Lit(<<"]">>), Lit(<<">">>)>>

\* One re.sub of _normalize_control_tags: every match of the pattern is
\* replaced by head [G] mid [H] tail, G and H being the captured hex of
\* groups g1 and g2, upper-cased and zero-filled to w1 and w2 (w2 = -1: the
\* replacement has the one bracket).
NormRule(re, head, g1, w1, mid, g2, w2, tail) ==
    [re |-> re, head |-> head, g1 |-> g1, w1 |-> w1, mid |-> mid, g2 |-> g2,
     w2 |-> w2, tail |-> tail]

\* The substitutions of _normalize_control_tags after the first, in source
\* order
NORMALIZE_RULES ==
    <<NormRule(NPC_EXPRESSION_RE, <<"<","N","P","C"," ","E","x","p","r","e","s","s","i","o","n"," ">>, 1, 2, <<" ">>, 2, 4, <<">">>),
      NormRule(PLAYER_EMOTION_RE, <<"<","P","l","a","y","e","r"," ","E","m","o","t","i","o","n"," ">>, 1, 2, <<" ">>, 2, 4, <<">">>),
      NormRule(BareArgRe(<<"P","a","u","s","e">>, 2), <<"<","P","a","u","s","e"," ">>, 2, 2, <<>>, 2, -1, <<">">>),
      NormRule(BareArgRe(<<"L","i","n","e"," ","T","y","p","e">>, 2), <<"<","L","i","n","e"," ","T","y","p","e"," ">>, 2, 2, <<>>, 2, -1,
               <<">">>),
      NormRule(BareArgRe(<<"P","l","a","y"," ","S","o","u","n","d"," ","E","f","f","e","c","t">>, 2), <<"<","P","l","a","y"," ","S","o","u","n","d"," ","E","f","f","e","c","t"," ">>, 2, 2,
               <<>>, 2, -1, <<">">>),
      NormRule(BareArgRe(<<"C","h","a","r"," ","S","i","z","e">>, 4), <<"<","C","h","a","r"," ","S","i","z","e"," ">>, 2, 4, <<>>, 2, -1,
               <<">">>),
      NormRule(BareArgRe(<<"L","i","n","e"," ","S","i","z","e">>, 4), <<"<","L","i","n","e"," ","S","i","z","e"," ">>, 2, 4, <<>>, 2, -1,
               <<">">>),
      NormRule(COLOR_FOR_RE, <<"<","C","o","l","o","r"," ">>, 1, 0, <<" ","f","o","r"," ">>, 2, 2, <<" ","c","h","a","r","s",">">>),
      NormRule(COLOR_FOR_CHARS_RE, <<"<","C","o","l","o","r"," ">>, 1, 0, <<" ","f","o","r"," ">>, 2, 2,
               <<" ","c","h","a","r","s",">">>),
      NormRule(COLOR_LINE_RE, <<"<","C","o","l","o","r"," ","L","i","n","e"," ">>, 1, 0, <<>>, 1, -1, <<">">>),
      NormRule(COLOR_BARE_RE, <<"<","C","o","l","o","r"," ","L","i","n","e"," ">>, 1, 0, <<>>, 1, -1, <<">">>),
      NormRule(COLOR_BRACKET_RE, <<"<","C","o","l","o","r"," ","L","i","n","e"," ">>, 1, 0, <<>>, 1, -1, <<">">>)>>

\* re.sub(rule.re, the rule's replacement, text)
NormSub(rule, text) ==
    LET Repl(m) ==
            rule.head \o <<"[">>
                \o ZFill(Upper(Group(text, m, rule.g1)), rule.w1) \o <<"]">>
                \o (IF rule.w2 = -1 THEN <<>>
                    ELSE rule.mid \o <<"[">>
                             \o ZFill(Upper(Group(text, m, rule.g2)), rule.w2)
                             \o <<"]">>)
                \o rule.tail
    IN  SubMatches(text, FindAll(rule.re, text, 0), Repl)

RECURSIVE NormalizeFrom(_, _)
\* The substitutions k.. of NORMALIZE_RULES applied in turn (none of them
\* changes an empty text)
NormalizeFrom(k, text) ==
    IF k > Len(NORMALIZE_RULES) \/ text = <<>> THEN text
    ELSE NormalizeFrom(k + 1, NormSub(NORMALIZE_RULES[k], text))

\* _normalize_control_tags(text)
normalize_control_tags(text) ==
    NormalizeFrom(1, SubMatches(text, FindAll(CLOSING_TAG_RE, text, 0),
                                EmptyRepl))

\* _normalize_visible_text(text): typographic characters to ASCII
VisibleReplacement(c) ==
    CASE c \in {"U+2019", "U+2018"} -> <<"'">>
      [] c \in {"U+201C", "U+201D"} -> <<"\"">>
      [] c \in {"U+2014", "U+2013"} -> <<"-">>
      [] c = "U+2026" -> <<".",".",".">>
      [] c = "U+00A0" -> <<" ">>
      [] OTHER -> <<c>>
normalize_visible_text(text) ==
    Concat([k \in 1..Len(text) |-> VisibleReplacement(text[k])])

\* The characters with 32 <= ord(ch) < 127
AsciiPrintable ==
    Range(<<" ","!","\"","#","$","%","&","'","(",")","*","+",",","-",".","/","0","1","2","3","4","5","6","7","8","9",":",";","<","=",">","?","@","A","B","C","D","E","F","G","H","I","J","K","L","M","N","O","P","Q","R","S","T","U","V","W","X","Y","Z">>)
        \cup Range(<<"[","\\","]","^","_","U+0060","a","b","c","d","e","f","g","h","i","j","k","l","m","n","o","p","q","r","s","t","u","v","w","x","y","z","{","|","}","~">>)

SanitizeKeeps(ch) ==
    \/ ch = "U+000A"
    \/ <<ch>> \in DOMAIN REVERSE_CHARACTER_MAP
    \/ ch \in AsciiPrintable

\* _sanitize_for_charset(text)
sanitize_for_charset(text) == SelectSeq(text, SanitizeKeeps)

\* ----------------------------------------------------------- encode_ac_text

\* re.split(r'(<[^>]+>)', text): the literal runs and, between them, the
\* tags; a literal run may be empty
SplitTokens(text) ==
    With(FindAll(CONTROL_TAG_RE, text, 0),
         LAMBDA ms :
             [n \in 1..(2 * Len(ms) + 1) |->
                 IF n % 2 = 0 THEN Group0(text, ms[n \div 2])
                 ELSE Slice(text,
                            IF n = 1 THEN 0 ELSE ms[(n - 1) \div 2].e,
                            IF n = 2 * Len(ms) + 1 THEN Len(text)
                            ELSE ms[(n + 1) \div 2].s)])

\* token.split(' ')
SplitWords(token) ==
    LET spaces == {p \in 1..Len(token) : token[p] = " "}
        nth(n) == IF n = 0 THEN 0
                  ELSE IF n > Cardinality(spaces) THEN Len(token) + 1
                  ELSE CHOOSE p \in spaces :
                           Cardinality({q \in spaces : q <= p}) = n
    IN  [n \in 1..(Cardinality(spaces) + 1) |->
            SubSeq(token, nth(n - 1) + 1, nth(n) - 1)]

\* token.startswith('<') and token.endswith('>')
IsTagToken(token) ==
    token # <<>> /\ token[1] = "<" /\ token[Len(token)] = ">"

\* \[[^\]]*?([0-9a-fA-F]{1,6})\]
ARG_PATTERN ==
    <<Lit(<<"[">>), NotCls({"]"}, 0, -1, FALSE), GrpOpen(1),
      Cls(HexClass, 1, 6, TRUE), GrpClose(1), Lit(<<"]">>)>>

RECURSIVE HexValue(_)
\* int(s, 16)
HexValue(s) ==
    IF s = <<>> THEN 0
    ELSE HexValue(SubSeq(s, 1, Len(s) - 1)) * 16
             + (CHOOSE d \in 0..15 : HexDigits[d + 1] = UpperChar(s[Len(s)]))

\* [int(arg, 16) for arg in arg_pattern.findall(token)]
TagArgs(token) ==
    With(FindAll(ARG_PATTERN, token, 0),
         LAMBDA ms : [k \in 1..Len(ms) |-> HexValue(Group(token, ms[k], 1))])

\* struct.pack('>B', v), struct.pack('>H', v), v.to_bytes(3, 'big'), v being
\* the result of indexing args: each raises when v does not fit
PackB(v) ==
    IF v.raised \/ v.value > 255 THEN Raised ELSE Returned(<<v.value>>)
PackH(v) ==
    IF v.raised \/ v.value > 65535 THEN Raised
    ELSE Returned(<<v.value \div 256, v.value % 256>>)
ToBytes3(v) ==
    IF v.raised \/ v.value > 16777215 THEN Raised
    ELSE Returned(<<v.value \div 65536, (v.value \div 256) % 256,
                    v.value % 256>>)

\* The parts of arg_bytes joined, unless packing one of them raised
JoinPacked(parts) ==
    IF \E k \in 1..Len(parts) : parts[k].raised THEN Raised
    ELSE Returned(Concat([k \in 1..Len(parts) |-> parts[k].value]))

\* arg_bytes for command_byte from the parsed args
PackArgs(command_byte, args) ==
    LET num_args_expected == TableGet(CODE_ARG_COUNT, command_byte, 0)
    IN  IF num_args_expected = 0 THEN Returned(<<>>)
        ELSE IF num_args_expected = 1 THEN PackB(GetItem(args, 0))
        ELSE IF num_args_expected = 2 THEN PackH(GetItem(args, 0))
        ELSE IF num_args_expected = 3 /\ command_byte = 5
        THEN ToBytes3(GetItem(args, 0))
        ELSE IF num_args_expected = 3 /\ command_byte \in {8, 9}
        THEN JoinPacked(<<PackB(GetItem(args, 0)), PackH(GetItem(args, 1))>>)
        ELSE IF num_args_expected = 4 /\ command_byte = 80
        THEN JoinPacked(<<ToBytes3(GetItem(args, 0)),
                          PackB(GetItem(args, 1))>>)
        ELSE JoinPacked([k \in 1..Len(args) |-> PackH(Returned(args[k]))])

\* The bytes a tag token adds to encoded: none for a tag that is not in
\* REVERSE_CONTROL_CODES
EncodeTag(token) ==
    With(REVERSE_CONTROL_CODES_get(BaseTag(token)),
         LAMBDA command_byte :
             IF command_byte = -1 THEN Returned(<<>>)
             ELSE With(PackArgs(command_byte, TagArgs(token)),
                       LAMBDA arg_bytes :
                           IF arg_bytes.raised THEN Raised
                           ELSE Returned(<<PREFIX_BYTE, command_byte>>
                                             \o arg_bytes.value)))

\* The column budget of a line
WRAP_COLUMNS == 30
NEWLINE_BYTE == 205
SPACE_BYTE == 32

\* One pass of the loop over words: the bytes it appends and the char_count
\* it leaves
EncodeWord(word, word_idx, char_count) ==
    LET word_length == Len(word)
        space_needed == IF word_idx > 0 /\ char_count > 0 THEN 1 ELSE 0
        wrap == char_count > 0
                    /\ char_count + space_needed + word_length > WRAP_COLUMNS
        space == ~wrap /\ space_needed > 0
        count1 == IF wrap THEN 0 ELSE IF space THEN char_count + 1
                  ELSE char_count
    IN  With(SelectSeq(word,
                       LAMBDA c : <<c>> \in DOMAIN REVERSE_CHARACTER_MAP),
             LAMBDA known :
                 LET newlines == {k \in 1..Len(known) : known[k] = "U+000A"}
                 IN  [bytes |->
                          (IF wrap THEN <<NEWLINE_BYTE>> ELSE <<>>)
                              \o (IF space THEN <<SPACE_BYTE>> ELSE <<>>)
                              \o [k \in 1..Len(known) |->
                                     REVERSE_CHARACTER_MAP[<<known[k]>>]],
                      char_count |->
                          IF newlines = {} THEN count1 + Len(known)
                          ELSE Len(known) - Max(newlines)])

\* The passes of the two nested loops, in order: one per tag token, one per
\* word of a literal token; empty tokens are skipped
EncodeItems(tokens) ==
    Concat([n \in 1..Len(tokens) |->
        IF tokens[n] = <<>> THEN <<>>
        ELSE IF IsTagToken(tokens[n])
        THEN <<[tag |-> TRUE, s |-> tokens[n], word_idx |-> 0]>>
        ELSE LET words == SplitWords(tokens[n])
             IN  [k \in 1..Len(words) |->
                     [tag |-> FALSE, s |-> words[k], word_idx |-> k - 1]]])

RECURSIVE EncodeLoop(_, _, _)
\* The loop from pass k on; st is encoded and char_count so far, or the
\* exception that left the function
EncodeLoop(items, k, st) ==
    IF st.raised \/ k > Len(items) THEN st
    ELSE IF items[k].tag THEN
        With(EncodeTag(items[k].s),
             LAMBDA tag_bytes :
                 EncodeLoop(items, k + 1,
                     IF tag_bytes.raised
                     THEN [raised |-> TRUE, encoded |-> <<>>,
                           char_count |-> 0]
                     ELSE [st EXCEPT
                              !.encoded = st.encoded \o tag_bytes.value]))
    ELSE
        With(EncodeWord(items[k].s, items[k].word_idx, st.char_count),
             LAMBDA w :
                 EncodeLoop(items, k + 1,
                     [raised |-> FALSE, encoded |-> st.encoded \o w.bytes,
                      char_count |-> w.char_count]))

\* encode_ac_text(text): the bytes, or an exception
encode_ac_text(text) ==
    With(EncodeLoop(
             EncodeItems(SplitTokens(sanitize_for_charset(
                 normalize_visible_text(normalize_control_tags(text))))),
             1, [raised |-> FALSE, encoded |-> <<>>, char_count |-> 0]),
         LAMBDA st :
             IF st.raised THEN Raised ELSE Returned(st.encoded \o <<0>>))

\* -------------------------------------------------------- ConversationState

\* ConversationState(): the dataclass defaults
NewConversationState ==
    [lines_seen |-> 0, last_visible_text |-> None, ready_for_chatty |-> FALSE,
     menu_injected |-> FALSE, awaiting_choice_resolution |-> FALSE,
     chatty_requested |-> FALSE, menu_skip_logged |-> FALSE]

\* reset that forgets to clear the counter
reset_keeping_lines(self) ==
    [self EXCEPT !.last_visible_text = None,
                 !.ready_for_chatty = FALSE, !.menu_injected = FALSE,
                 !.awaiting_choice_resolution = FALSE,
                 !.chatty_requested = FALSE, !.menu_skip_logged = FALSE]

\* reset that forgets to clear menu_injected
reset_keeping_menu_injected(self) ==
    [self EXCEPT !.lines_seen = 0, !.last_visible_text = None,
                 !.ready_for_chatty = FALSE,
                 !.awaiting_choice_resolution = FALSE,
                 !.chatty_requested = FALSE, !.menu_skip_logged = FALSE]

\* ConversationState.reset
reset(self) ==
    [self EXCEPT !.lines_seen = 0, !.last_visible_text = None,
                 !.ready_for_chatty = FALSE, !.menu_injected = FALSE,
                 !.awaiting_choice_resolution = FALSE,
                 !.chatty_requested = FALSE, !.menu_skip_logged = FALSE]

\* Every visible text counts as a new line
IsNovelAlways(visible, last_visible_text) == TRUE

\* visible != self.last_visible_text
IsNovel(visible, last_visible_text) == visible # last_visible_text

\* A menu makes the channel eligible even when no line has been seen
MenuMakesReadyAlways(self) == ~self.ready_for_chatty

\* not self.ready_for_chatty and self.lines_seen >= 1
MenuMakesReady(self) == ~self.ready_for_chatty /\ self.lines_seen >= 1

\* A new line is counted and the eligibility is not looked at again
RecordLineNotEligible(self, visible) ==
    [self EXCEPT !.last_visible_text = visible,
                 !.lines_seen = self.lines_seen + 1]

\* Every new line asks for a generation
RecordLineRequesting(self, visible) ==
    [self EXCEPT !.last_visible_text = visible,
                 !.lines_seen = self.lines_seen + 1,
                 !.ready_for_chatty = self.ready_for_chatty
                                          \/ self.lines_seen + 1 >= 2,
                 !.chatty_requested = TRUE]

\* The visible text is recorded as a new line
RecordLine(self, visible) ==
    [self EXCEPT !.last_visible_text = visible,
                 !.lines_seen = self.lines_seen + 1,
                 !.ready_for_chatty = self.ready_for_chatty
                                          \/ self.lines_seen + 1 >= 2]

\* ConversationState.observe_text(text): the state it leaves
observe_text(self, text) ==
    IF Contains(text, END_CONVERSATION) THEN reset(self)
    ELSE IF self.awaiting_choice_resolution /\ ~Contains(text, OPEN_CHOICE_MENU)
    THEN
        LET resolved == [self EXCEPT !.awaiting_choice_resolution = FALSE,
                                     !.menu_injected = FALSE,
                                     !.menu_skip_logged = FALSE]
        IN  With(Strip(strip_control_codes(text)),
                 LAMBDA visible_followup :
                     IF visible_followup = <<>> THEN resolved
                     ELSE IF IsNovel(visible_followup, self.last_visible_text)
                     THEN RecordLine(
                              [resolved EXCEPT !.chatty_requested = TRUE],
                              visible_followup)
                     ELSE [resolved EXCEPT !.chatty_requested = TRUE])
    ELSE IF Contains(text, OPEN_CHOICE_MENU)
    THEN IF MenuMakesReady(self) THEN [self EXCEPT !.ready_for_chatty = TRUE]
         ELSE self
    ELSE
        With(Strip(strip_control_codes(text)),
             LAMBDA visible :
                 IF visible = <<>> THEN self
                 ELSE IF IsNovel(visible, self.last_visible_text)
                 THEN [RecordLine(self, visible)
                          EXCEPT !.menu_skip_logged = FALSE]
                 ELSE self)

\* ------------------------------------------------------------ watch_dialogue

VARIABLES
    last_text_by_addr,          \* Dict[int, Optional[str]]
    generation_in_progress,     \* Dict[int, bool]
    suppress_until_by_addr,     \* Dict[int, float]
    conversation_state,         \* Dict[int, ConversationState]
    lock_locked,                \* GLOBAL_GENERATION_LOCK.locked()
    print_all,                  \* the print_all argument
    pc,                         \* where the loop stands
    addr_idx,                   \* position of the for loop in addresses
    text,                       \* the local text of the iteration under way
    report,                     \* what the last iteration printed and did,
                                \* and the addresses with an injected menu
                                \* written since their last generation and
                                \* their last reset
    observed,                   \* the last call of observe_text
    memory,                     \* transport: the bytes at each address
    now,                        \* time.time()
    game_writes,                \* writes the game made at each address
    addresses,                  \* the addresses argument
    codec                       \* the codec applied to an input of its own

vars ==
    <<last_text_by_addr, generation_in_progress, suppress_until_by_addr,
      conversation_state, lock_locked, print_all, pc, addr_idx, text, report,
      observed, memory, now, game_writes, addresses, codec>>

loop_vars ==
    <<last_text_by_addr, generation_in_progress, suppress_until_by_addr,
      conversation_state, lock_locked, print_all, pc, addr_idx, text, report,
      observed>>

\* The keys of the dictionaries
AddressSet == {addresses[k] : k \in DOMAIN addresses}

\* The per_read_size argument: main passes at least 32
per_read_size == 32

\* GENERATION_SUPPRESS_SECONDS, configured to two ticks of the clock
SUPPRESS_SECONDS == 2

\* The clock stops here
MaxTime == 2

\* The game rewrites the dialogue at an address at most this often
MaxGameWrites == 4

\* loading_text
LOADING_TEXT == <<".","<","P","a","u","s","e"," ","[","0","A","]",">",".","<","P","a","u","s","e"," ","[","0","A","]",">",".","<","P","a","u","s","e"," ","[","0","A","]",">","<","P","r","e","s","s"," ","A",">","<","C","l","e","a","r"," ","T","e","x","t",">">>

\* What write_dialogue_to_address(loading_text, addr) encodes
LOADING_BYTES == encode_ac_text(LOADING_TEXT).value

\* A buffer of per_read_size bytes: content, then zeros
Snapshot(content) ==
    content \o [k \in 1..(per_read_size - Len(content)) |-> 0]

\* What the game shows: "Hi", "Ok", a menu of two choices, "Ok" with the end
\* of the conversation, a lone <Press A>, nothing
GAME_SNAPSHOTS ==
    {Snapshot(<<72, 105>>),
     Snapshot(<<79, 107>>),
     Snapshot(<<127, 13, 65, 127, 15, 18, 52, 127, 16, 86, 120>>),
     Snapshot(<<79, 107, 127, 0>>),
     Snapshot(<<127, 4>>),
     Snapshot(<<>>)}

\* A conversation as the game shows it: a line, the menu, the line that
\* follows the choice
GAME_TALK ==
    <<Snapshot(<<72, 105>>),
      Snapshot(<<127, 13, 65, 127, 15, 18, 52, 127, 16, 86, 120>>),
      Snapshot(<<79, 107>>)>>

\* What generate_dialogue returns when it returns
LLM_TEXTS == {<<"M","e","o","w","!">>}

\* memory_ipc.read_memory(address, size) when the read succeeds
ReadMemory(mem, size) == SubSeq(mem, 1, size)

\* memory_ipc.write_memory(address, data) when the write succeeds
WriteMemory(mem, data) == data \o SubSeq(mem, Len(data) + 1, Len(mem))

\* The suppression window is never taken to be active
SuppressedNever(now_ts, suppress_until) == FALSE

\* now_ts < suppress_until_by_addr.get(addr, 0.0)
Suppressed(now_ts, suppress_until) == now_ts < suppress_until

\* The in-flight flag is left set
KeepInProgress(in_progress, addr) == in_progress

\* generation_in_progress[addr] = False
ClearInProgress(in_progress, addr) == [in_progress EXCEPT ![addr] = FALSE]

\* The lock is left held
LockKept(locked) == locked

\* Leaving the with block releases GLOBAL_GENERATION_LOCK
LockReleased(locked) == FALSE

\* The statements after the generation block, when did_generate is false
AfterNoGeneration(state, txt) ==
    IF Contains(txt, END_CONVERSATION) THEN reset(state)
    ELSE IF ~state.awaiting_choice_resolution
    THEN [state EXCEPT !.chatty_requested = FALSE]
    ELSE state

\* Nothing printed yet
NoReport ==
    [addr |-> 0, kind |-> "none", did_generate |-> FALSE, write |-> "none",
     menu_write |-> "none", suppress_before |-> 0, llm_text |-> None,
     injected_since |-> {}]

\* observe_text not called
NotObserved ==
    [addr |-> 0, text |-> None, before |-> NewConversationState,
     after |-> NewConversationState]

\* The codec not applied yet, and no input to it
CodecIdle == [op |-> "none", input |-> <<>>, size |-> 0, output |-> Returned(<<>>)]

\* The dictionaries and the transport as watch_dialogue finds them when it is
\* given addrs
Started(addrs) ==
    LET keys == {addrs[k] : k \in DOMAIN addrs}
    IN  /\ addresses = addrs
        /\ last_text_by_addr = [a \in keys |-> None]
        /\ generation_in_progress = [a \in keys |-> FALSE]
        /\ suppress_until_by_addr = [a \in keys |-> 0]
        /\ conversation_state = [a \in keys |-> NewConversationState]
        /\ memory = [a \in keys |-> Snapshot(<<>>)]
        /\ game_writes = [a \in keys |-> 0]
        /\ lock_locked = FALSE
        /\ pc = "poll"
        /\ addr_idx = 1
        /\ text = None
        /\ report = NoReport
        /\ observed = NotObserved
        /\ now = 0
        /\ codec = CodecIdle

\* One address watched, print_all on or off
Init == Started(<<1>>) /\ print_all \in BOOLEAN

\* Two addresses watched
InitTwo == Started(<<1, 2>>) /\ print_all = FALSE

\* The for loop moves to the next address, or the pass ends
NextAddress ==
    IF addr_idx < Len(addresses)
    THEN addr_idx' = addr_idx + 1 /\ pc' = "poll"
    ELSE addr_idx' = 1 /\ pc' = "sleep"

\* A generation is wanted whatever the channel holds
should_generate_always(state) == TRUE

\* should_generate
should_generate(state) ==
    state.chatty_requested /\ ~state.awaiting_choice_resolution

\* Lines 583-604 and 654-669: a generation begins, the lock is taken and the
\* loading text is written, with or without success; or the iteration ends
\* with no generation
GenerationOrNot(addr, txt, state, seen) ==
    IF should_generate(state) /\ ~generation_in_progress[addr] /\ ~lock_locked
    THEN {[seen EXCEPT !.kind = "begin_generation",
                       !.state = [state EXCEPT !.chatty_requested = FALSE],
                       !.mem = mem] :
              mem \in {memory[addr], WriteMemory(memory[addr], LOADING_BYTES)}}
    ELSE {[seen EXCEPT !.kind = "no_generation",
                       !.state = AfterNoGeneration(state, txt),
                       !.last_text = txt]}

\* Any menu is taken for an injection
should_inject_any_menu(state, txt) == Contains(txt, OPEN_CHOICE_MENU)

\* The condition of the injection branch
should_inject(state, txt) ==
    state.ready_for_chatty /\ Contains(txt, OPEN_CHOICE_MENU)
        /\ ~state.menu_injected

\* The flags are set although the write failed
injection_assumed_written(state) ==
    [state EXCEPT !.menu_injected = TRUE,
                  !.awaiting_choice_resolution = TRUE]

\* The channel when write_dialogue_to_address returned False at line 552:
\* the body of the if is not run
injection_not_written(state) == state

\* Lines 544-581 of an iteration whose text is txt, observed into state, and
\* what follows them: every way the iteration can go
PollDecision(addr, txt, state, seen) ==
    LET offer == should_inject(state, txt)
        skip_log == ~offer /\ Contains(txt, OPEN_CHOICE_MENU)
                        /\ ~state.menu_injected /\ ~state.ready_for_chatty
                        /\ ~state.menu_skip_logged
        state2 == IF skip_log THEN [state EXCEPT !.menu_skip_logged = TRUE]
                  ELSE state
    IN  With(IF offer THEN inject_feeling_chatty_option(txt) ELSE None,
          LAMBDA modified :
            With(offer /\ modified # None /\ modified # <<>>
                     /\ modified # txt,
              LAMBDA inject_now :
                With(IF inject_now THEN encode_ac_text(modified) ELSE Raised,
                  LAMBDA encoded :
                    IF inject_now /\ encoded.raised
                    THEN {[seen EXCEPT !.kind = "raised", !.state = state]}
                    ELSE
                      (IF inject_now
                       THEN {[seen EXCEPT
                                 !.kind = "injected", !.menu_write = "ok",
                                 !.state =
                                     [state EXCEPT
                                         !.menu_injected = TRUE,
                                         !.awaiting_choice_resolution = TRUE],
                                 !.last_text =
                                     parse_ac_text(encoded.value).value,
                                 !.mem = WriteMemory(memory[addr],
                                                     encoded.value)]}
                       ELSE {})
                      \cup GenerationOrNot(addr, txt,
                               IF inject_now
                               THEN injection_not_written(state2)
                               ELSE state2,
                               [seen EXCEPT
                                   !.menu_write = IF inject_now THEN "failed"
                                                  ELSE "none"]))))

\* Every text read is taken for a new one
text_changed_always(txt, last_text) == TRUE

\* print_all or text != last_text_by_addr[addr]
text_changed(txt, last_text) == print_all \/ txt # last_text

\* One iteration of the for loop for addr, raw being what read_memory gave:
\* every way it can go, each with what it leaves in the dictionaries and in
\* memory
PollOutcomes(addr, raw) ==
    LET Kept(txt) ==
            [kind |-> "absent", state |-> conversation_state[addr],
             last_text |-> last_text_by_addr[addr],
             suppress_until |-> suppress_until_by_addr[addr],
             mem |-> memory[addr], text |-> txt, observed |-> FALSE,
             after |-> conversation_state[addr], menu_write |-> "none"]
    IN  IF raw = <<>> THEN {Kept(None)}
        ELSE
          With(parse_ac_text(raw),
            LAMBDA parsed :
              IF parsed.raised
              THEN {[Kept(parsed.value) EXCEPT !.kind = "raised"]}
              ELSE IF ~text_changed(parsed.value, last_text_by_addr[addr])
              THEN {[Kept(parsed.value) EXCEPT !.kind = "unchanged"]}
              ELSE
                With(observe_text(conversation_state[addr], parsed.value),
                  LAMBDA state :
                    LET txt == parsed.value
                        seen == [Kept(txt) EXCEPT !.observed = TRUE,
                                                  !.after = state]
                    IN  IF Suppressed(now, suppress_until_by_addr[addr])
                        THEN IF Contains(txt, END_CONVERSATION)
                             THEN {[seen EXCEPT !.kind = "suppressed",
                                                !.suppress_until = 0,
                                                !.state = reset(state)]}
                             ELSE {[seen EXCEPT !.kind = "suppressed",
                                                !.state = state,
                                                !.last_text = txt]}
                        ELSE PollDecision(addr, txt, state, seen)))

\* One iteration of the for loop: the read, the observation, and what follows
\* up to the next address or up to the lock being taken for a generation
Poll ==
    /\ pc = "poll"
    /\ \E present \in BOOLEAN :
        LET addr == addresses[addr_idx]
            raw == IF present THEN ReadMemory(memory[addr], per_read_size)
                   ELSE <<>>
        IN  \E out \in PollOutcomes(addr, raw) :
            LET begins == out.kind = "begin_generation"
            IN  /\ conversation_state' =
                       [conversation_state EXCEPT ![addr] = out.state]
                /\ last_text_by_addr' =
                       [last_text_by_addr EXCEPT ![addr] = out.last_text]
                /\ suppress_until_by_addr' =
                       [suppress_until_by_addr EXCEPT
                           ![addr] = out.suppress_until]
                /\ memory' = [memory EXCEPT ![addr] = out.mem]
                /\ generation_in_progress' =
                       [generation_in_progress EXCEPT ![addr] = @ \/ begins]
                /\ lock_locked' = (lock_locked \/ begins)
                /\ text' = IF begins THEN out.text ELSE None
                /\ observed' = IF out.observed
                               THEN [addr |-> addr, text |-> out.text,
                                     before |-> conversation_state[addr],
                                     after |-> out.after]
                               ELSE NotObserved
                /\ report' = [addr |-> addr, kind |-> out.kind,
                              did_generate |-> FALSE, write |-> "none",
                              menu_write |-> out.menu_write,
                              suppress_before |-> suppress_until_by_addr[addr],
                              llm_text |-> None,
                              injected_since |->
                                  IF out.kind = "injected"
                                  THEN report.injected_since \cup {addr}
                                  ELSE IF begins
                                           \/ (out.observed
                                                /\ Contains(out.text,
                                                       END_CONVERSATION))
                                  THEN report.injected_since \ {addr}
                                  ELSE report.injected_since]
                /\ IF out.kind = "raised"
                   THEN pc' = "raised" /\ addr_idx' = addr_idx
                   ELSE IF begins THEN pc' = "generate" /\ addr_idx' = addr_idx
                   ELSE NextAddress
    /\ UNCHANGED <<print_all, now, game_writes, addresses, codec>>

\* A failure of generate_dialogue is taken for an empty text
generation_result_of_nothing(llm) ==
    encode_ac_text(IF llm = None THEN <<>> ELSE llm)

\* The try block up to encode_ac_text(combined): an exception of
\* generate_dialogue (llm is None) or of the encoder goes to the except clause
generation_result(llm) == IF llm = None THEN Raised ELSE encode_ac_text(llm)

\* The text read stays the last text whatever was generated
last_text_as_read(encoded, txt) == txt

\* last_text_by_addr[addr] when the iteration ends: predicted (642-643) after
\* a generation, the text read (665) after none
last_text_after(encoded, txt) ==
    IF ~encoded.raised THEN parse_ac_text(encoded.value).value ELSE txt

\* The try block under the lock, its finally clause, and the closing
\* statements of the iteration. llm is what generate_dialogue returns, None
\* when it raises; wrote is what write_dialogue_to_address returns
Generate ==
    /\ pc = "generate"
    /\ \E llm \in LLM_TEXTS \cup {None} :
      \E encoded \in {generation_result(llm)} :
        LET addr == addresses[addr_idx]
            did_generate == ~encoded.raised
            finished == [conversation_state[addr] EXCEPT
                            !.menu_injected = FALSE,
                            !.awaiting_choice_resolution = FALSE]
        IN  \E wrote \in IF did_generate THEN BOOLEAN ELSE {FALSE} :
            /\ memory' =
                   IF wrote
                   THEN [memory EXCEPT
                            ![addr] = WriteMemory(memory[addr], encoded.value)]
                   ELSE memory
            /\ last_text_by_addr' =
                   [last_text_by_addr EXCEPT
                       ![addr] = last_text_after(encoded, text)]
            /\ suppress_until_by_addr' =
                   IF did_generate
                   THEN [suppress_until_by_addr EXCEPT
                            ![addr] = now + SUPPRESS_SECONDS]
                   ELSE suppress_until_by_addr
            /\ generation_in_progress' =
                   ClearInProgress(generation_in_progress, addr)
            /\ lock_locked' = LockReleased(lock_locked)
            /\ conversation_state' =
                   [conversation_state EXCEPT
                       ![addr] = IF did_generate THEN finished
                                 ELSE AfterNoGeneration(finished, text)]
            /\ report' = [addr |-> addr, kind |-> "generation",
                          did_generate |-> did_generate,
                          write |-> IF ~did_generate THEN "none"
                                    ELSE IF wrote THEN "ok" ELSE "failed",
                          menu_write |-> "none",
                          suppress_before |-> suppress_until_by_addr[addr],
                          llm_text |-> llm,
                          injected_since |-> report.injected_since]
    /\ text' = None
    /\ NextAddress
    /\ UNCHANGED <<print_all, observed, now, game_writes, addresses, codec>>

\* time.sleep(max(0.0, interval_s)), then the next pass of the while loop
Sleep ==
    /\ pc = "sleep"
    /\ pc' = "poll"
    /\ UNCHANGED <<last_text_by_addr, generation_in_progress,
                   suppress_until_by_addr, conversation_state, lock_locked,
                   print_all, addr_idx, text, report, observed, memory, now,
                   game_writes, addresses, codec>>

\* The clock advances
Tick ==
    /\ now < MaxTime
    /\ now' = now + 1
    /\ UNCHANGED <<loop_vars, memory, game_writes, addresses, codec>>

\* The game shows something else at an address. The polls of a pass touch
\* disjoint addresses, so a write that falls between two of them is taken
\* where the pass ends; a write may also fall inside a generation
GameWrite ==
    /\ pc \in {"sleep", "generate"}
    /\ \E addr \in AddressSet, snapshot \in GAME_SNAPSHOTS :
        /\ game_writes[addr] < MaxGameWrites
        /\ memory[addr] # snapshot
        /\ memory' = [memory EXCEPT ![addr] = snapshot]
        /\ game_writes' = [game_writes EXCEPT ![addr] = @ + 1]
    /\ UNCHANGED <<loop_vars, now, addresses, codec>>

\* The game moves on in the conversation it holds at an address
GameTalk ==
    /\ pc \in {"sleep", "generate"}
    /\ \E addr \in AddressSet :
        /\ game_writes[addr] < Len(GAME_TALK)
        /\ memory' = [memory EXCEPT ![addr] = GAME_TALK[game_writes[addr] + 1]]
        /\ game_writes' = [game_writes EXCEPT ![addr] = @ + 1]
    /\ UNCHANGED <<loop_vars, now, addresses, codec>>

\* One address, the game showing anything at any time
Next == Poll \/ Generate \/ Sleep \/ Tick \/ GameWrite

Spec == Init /\ [][Next]_vars

\* One address with print_all off, every read and write of memory succeeding, the
\* loop never stopping: an iteration that can run does run, the sleep ends,
\* the clock goes on
InitLive == Started(<<1>>) /\ print_all = FALSE

PollLive ==
    Poll /\ report'.kind # "absent" /\ report'.menu_write # "failed"
         /\ (report'.kind = "begin_generation"
                 => memory'[report'.addr]
                        = WriteMemory(memory[report'.addr], LOADING_BYTES))

GenerateLive == Generate /\ report'.write # "failed"

NextLive == PollLive \/ GenerateLive \/ Sleep \/ Tick \/ GameWrite

\* The for loop runs the iteration it stands at: with one address every
\* iteration leaves "poll", and PollLive can be taken whenever pc = "poll"
PollRuns == pc = "poll" /\ pc' \in {"sleep", "generate", "raised"}

SpecLive ==
    /\ InitLive /\ [][NextLive]_vars
    /\ WF_pc(PollRuns) /\ WF_vars(GenerateLive)
    /\ WF_vars(Sleep) /\ WF_vars(Tick)

\* Two addresses, a conversation at each
NextTwo == Poll \/ Generate \/ Sleep \/ GameTalk

SpecTwo == InitTwo /\ [][NextTwo]_vars

\* ------------------------------------------- the codec on inputs of its own

\* Buffers are at most this long
MaxBytes == 4

\* Texts are made of at most this many tags and runs of characters
MaxTokens == 3

\* The bytes of the buffers: the terminator, the prefix, codes of no, one, two
\* and three arguments, a code that is not in the table, a letter, a byte
\* that is no glyph
CODEC_BYTES == {0, 127, 13, 3, 15, 12, 1, 72, 254}

\* The tags and characters of the texts, each as parse_ac_text writes it;
\* the last is the character CHARACTER_MAP gives for byte 0
CODEC_TOKENS ==
    {<<"<","O","p","e","n"," ","C","h","o","i","c","e"," ","M","e","n","u",">">>, <<"<","C","h","o","i","c","e"," ","1"," ","J","u","m","p"," ","[","1","2","3","4","]",">">>,
     <<"<","C","h","o","i","c","e"," ","2"," ","J","u","m","p"," ","[","5","6","7","8","]",">">>, <<"A">>, <<"<","P","a","u","s","e"," ","[","0","A","]",">">>,
     <<"<","S","e","t"," ","D","e","m","o"," ","O","r","d","e","r"," ","[","0","1",","," ","0","2",","," ","0","3","]",">">>, <<"<","P","l","a","y"," ","S","o","u","n","d"," ","E","f","f","e","c","t"," ","[","H","a","p","p","y","]",">">>,
     <<"U+00A1">>}

\* Lines of words are made of at most this many pieces
MaxWords == 4

\* The pieces of the lines of words: a word of 28 columns, a word of 30
\* columns, a space, a letter, a character that passes
\* _sanitize_for_charset and is not in REVERSE_CHARACTER_MAP
WRAP_WORDS ==
    {[i \in 1..28 |-> "A"], [i \in 1..30 |-> "A"], <<" ">>, <<"B">>, <<"{">>}

\* A buffer is put together, byte by byte
CodecByte ==
    /\ codec.op \in {"none", "bytes"}
    /\ codec.size < MaxBytes
    /\ \E b \in CODEC_BYTES :
        codec' = [op |-> "bytes", input |-> Append(codec.input, b),
                  size |-> codec.size + 1, output |-> Returned(<<>>)]
    /\ UNCHANGED <<loop_vars, memory, now, game_writes, addresses>>

\* A text is put together, tag by tag
CodecToken ==
    /\ codec.op \in {"none", "text"}
    /\ codec.size < MaxTokens
    /\ \E token \in CODEC_TOKENS :
        codec' = [op |-> "text", input |-> codec.input \o token,
                  size |-> codec.size + 1, output |-> Returned(<<>>)]
    /\ UNCHANGED <<loop_vars, memory, now, game_writes, addresses>>

\* A line of words is put together, piece by piece
CodecWord ==
    /\ codec.op \in {"none", "words"}
    /\ codec.size < MaxWords
    /\ \E word \in WRAP_WORDS :
        codec' = [op |-> "words", input |-> codec.input \o word,
                  size |-> codec.size + 1, output |-> Returned(<<>>)]
    /\ UNCHANGED <<loop_vars, memory, now, game_writes, addresses>>

\* parse_ac_text(data)
CodecDecode ==
    /\ codec.op \in {"none", "bytes"}
    /\ codec' = [codec EXCEPT !.op = "decode",
                              !.output = parse_ac_text(codec.input)]
    /\ UNCHANGED <<loop_vars, memory, now, game_writes, addresses>>

\* _inject_feeling_chatty_option(text)
CodecInject ==
    /\ codec.op = "text"
    /\ codec' = [codec EXCEPT
                    !.op = "inject",
                    !.output = Returned(inject_feeling_chatty_option(codec.input))]
    /\ UNCHANGED <<loop_vars, memory, now, game_writes, addresses>>

\* parse_ac_text(encode_ac_text(text))
CodecRoundTrip ==
    /\ codec.op = "text"
    /\ \E encoded \in {encode_ac_text(codec.input)} :
           codec' = [codec EXCEPT
                        !.op = "round_trip",
                        !.output = IF encoded.raised THEN Raised
                                   ELSE parse_ac_text(encoded.value)]
    /\ UNCHANGED <<loop_vars, memory, now, game_writes, addresses>>

\* encode_ac_text(text)
CodecEncode ==
    /\ codec.op \in {"text", "words"}
    /\ codec' = [codec EXCEPT !.op = IF codec.op = "text" THEN "encode"
                                     ELSE "wrap",
                              !.output = encode_ac_text(codec.input)]
    /\ UNCHANGED <<loop_vars, memory, now, game_writes, addresses>>

NextCodec ==
    \/ CodecByte \/ CodecToken \/ CodecWord \/ CodecDecode \/ CodecInject
    \/ CodecRoundTrip \/ CodecEncode

\* No address matters to the codec
InitCodec == Started(<<1>>) /\ print_all = FALSE

SpecCodec == InitCodec /\ [][NextCodec]_vars

\* ------------------------------------------------------------------ claims

\* C1: at most one address has its in-flight flag set at a time, and an
\* address has it set only while the loop stands inside the generation of
\* that address with GLOBAL_GENERATION_LOCK held.
C1_SingleFlight ==
    /\ Cardinality({a \in AddressSet : generation_in_progress[a]}) <= 1
    /\ \A a \in AddressSet :
           generation_in_progress[a] =>
               lock_locked /\ pc = "generate" /\ addresses[addr_idx] = a

\* C1 witness: the second address is inside a generation after the first
\* address has been through one of its own.
C1_Witness ==
    /\ pc = "generate"
    /\ addresses[addr_idx] = 2
    /\ generation_in_progress[2]
    /\ suppress_until_by_addr[1] > 0

\* C2: once an iteration that entered a generation has ended, whichever way
\* the generation went, the lock is free and no address is in flight.
C2_ReleasedOnEveryExit ==
    report.kind = "generation" =>
        /\ ~lock_locked
        /\ \A a \in AddressSet : ~generation_in_progress[a]

\* C2 witness: a generation whose result could not be written has ended.
C2_Witness ==
    /\ report.kind = "generation"
    /\ report.write = "failed"
    /\ pc # "generate"

C4_SuppressionOnlyAfterWrite ==
    (report.kind = "generation" /\ report.write = "failed") =>
        /\ suppress_until_by_addr[report.addr] = report.suppress_before
        /\ ~report.did_generate

\* C5: observe_text of a text that holds <End Conversation> leaves the state
\* as a new ConversationState, whatever the state was and whatever else the
\* text holds.
C5_EndConversationResets ==
    (observed.addr # 0 /\ Contains(observed.text, END_CONVERSATION)) =>
        observed.after = NewConversationState

\* C5 witness: a channel that had counted a line and was eligible has
\* observed a text that holds more than the marker.
C5_Witness ==
    /\ observed.addr # 0
    /\ Contains(observed.text, END_CONVERSATION)
    /\ observed.text # END_CONVERSATION
    /\ observed.before.lines_seen >= 1
    /\ observed.before.ready_for_chatty
    /\ observed.after = NewConversationState

\* C6: observe_text raises lines_seen only by one, and only for a text with
\* neither marker whose visible part is not empty and differs from
\* last_visible_text.
C6_CounterOnlyOnNovelLine ==
    (observed.addr # 0
        /\ observed.after.lines_seen > observed.before.lines_seen) =>
        /\ observed.after.lines_seen = observed.before.lines_seen + 1
        /\ ~Contains(observed.text, END_CONVERSATION)
        /\ ~Contains(observed.text, OPEN_CHOICE_MENU)
        /\ Strip(strip_control_codes(observed.text)) # <<>>
        /\ Strip(strip_control_codes(observed.text))
               # observed.before.last_visible_text

\* C6 witness: a second line, different from the first, has been counted.
C6_Witness ==
    /\ observed.addr # 0
    /\ observed.before.lines_seen = 1
    /\ observed.before.last_visible_text # None
    /\ observed.after.lines_seen = 2

\* C7: a new channel that observes a line counts one line and is not yet
\* eligible; a menu observed once a line has been counted makes the channel
\* eligible and leaves lines_seen and last_visible_text alone; a menu observed
\* before any line leaves the channel not eligible.
C7_MenuAfterSingleLine ==
    LET menu == Contains(observed.text, OPEN_CHOICE_MENU)
                    /\ ~Contains(observed.text, END_CONVERSATION)
        line == ~Contains(observed.text, OPEN_CHOICE_MENU)
                    /\ ~Contains(observed.text, END_CONVERSATION)
                    /\ Strip(strip_control_codes(observed.text)) # <<>>
    IN  observed.addr # 0 =>
            /\ (line /\ observed.before = NewConversationState) =>
                   (observed.after.lines_seen = 1
                       /\ ~observed.after.ready_for_chatty)
            /\ (menu /\ observed.before.lines_seen >= 1) =>
                   /\ observed.after.ready_for_chatty
                   /\ observed.after.lines_seen = observed.before.lines_seen
                   /\ observed.after.last_visible_text
                          = observed.before.last_visible_text
            /\ (menu /\ observed.before.lines_seen = 0) =>
                   ~observed.after.ready_for_chatty

\* C7 witness: a channel with one line counted, not eligible, has observed
\* the menu and become eligible.
C7_Witness ==
    /\ observed.addr # 0
    /\ Contains(observed.text, OPEN_CHOICE_MENU)
    /\ observed.before.lines_seen = 1
    /\ ~observed.before.ready_for_chatty
    /\ observed.after.ready_for_chatty

\* C8: for a text with <Open Choice Menu> and, after it, a Choice 1 jump tag,
\* _inject_feeling_chatty_option returns a text that begins as the original
\* does up to the end of the menu marker, holds the jump tags of the original
\* in their order, and holds the label once; for any other text it returns
\* None.
C8_InjectionKeepsJumpTags ==
    LET original == codec.input
        result == codec.output.value
        menu_end == Find(original, OPEN_CHOICE_MENU, 0) + Len(OPEN_CHOICE_MENU)
        applies == Contains(original, OPEN_CHOICE_MENU)
                       /\ Find(original, <<"<","C","h","o","i","c","e"," ","1"," ","J","u","m","p"," ","[">>, menu_end) >= 0
        jump_tag == <<Lit(<<"<","C","h","o","i","c","e"," ">>), Cls(Digits, 1, -1, TRUE),
                      Lit(<<" ","J","u","m","p"," ","[">>), Cls(HexClass, 4, 4, TRUE), Lit(<<"]",">">>)>>
        JumpTags(t) == LET ms == FindAll(jump_tag, t, 0)
                       IN  [k \in 1..Len(ms) |-> Group0(t, ms[k])]
        Labels(t) == {i \in 0..(Len(t) - Len(FEELING_CHATTY_LABEL)) :
                         SubSeq(t, i + 1, i + Len(FEELING_CHATTY_LABEL))
                             = FEELING_CHATTY_LABEL}
    IN  codec.op = "inject" =>
            IF applies
            THEN /\ result # None
                 /\ Len(result) >= menu_end
                 /\ SubSeq(result, 1, menu_end) = SubSeq(original, 1, menu_end)
                 /\ JumpTags(result) = JumpTags(original)
                 /\ Cardinality(Labels(result)) = 1
            ELSE result = None

\* C9: a text made of tags as parse_ac_text writes them and of characters of
\* CHARACTER_MAP comes back unchanged from encode_ac_text followed by
\* parse_ac_text.
C9_RoundTrip ==
    codec.op = "round_trip" => codec.output = Returned(codec.input)

\* C10: parse_ac_text returns a text for every buffer; it never raises.
C10_DecodeTotal ==
    codec.op = "decode" => ~codec.output.raised

\* C10 witness: a buffer that ends with the prefix byte, no opcode after it,
\* has been decoded to the text before that byte.
C10_Witness ==
    /\ codec.op = "decode"
    /\ codec.input = <<72, PREFIX_BYTE>>
    /\ codec.output = Returned(<<"H">>)


\* C11: encode_ac_text returns a buffer for every text and never raises, a
\* tag whose hex arguments are missing (a name that parse_ac_text wrote in
\* their place) included.
C11_EncodeTotal == codec.op = "encode" => ~codec.output.raised

\* C12: encode_ac_text writes the line-break byte only before a word that,
\* with the space before it, would take the columns written on the line past
\* WRAP_COLUMNS; a word of 30 columns alone is not split, and two words of 31
\* columns together are split between the words.
C12_WordWrap ==
    codec.op = "wrap" =>
        LET out == codec.output.value
            Separator(b) == b \in {NEWLINE_BYTE, SPACE_BYTE, 0}
            LineStart(p) ==
                IF \E q \in 1..(p - 1) : out[q] = NEWLINE_BYTE
                THEN CHOOSE q \in 1..(p - 1) :
                         /\ out[q] = NEWLINE_BYTE
                         /\ \A r \in (q + 1)..(p - 1) : out[r] # NEWLINE_BYTE
                ELSE 0
            WordEnd(p) ==
                CHOOSE q \in (p + 1)..Len(out) :
                    /\ Separator(out[q])
                    /\ \A r \in (p + 1)..(q - 1) : ~Separator(out[r])
            A28 == [i \in 1..28 |-> "A"]
        IN  /\ ~codec.output.raised
            /\ \A p \in 1..Len(out) :
                   out[p] = NEWLINE_BYTE =>
                       (p - 1 - LineStart(p)) + 1 + (WordEnd(p) - p - 1)
                           > WRAP_COLUMNS
            /\ codec.input = [i \in 1..30 |-> "A"] =>
                   \A p \in 1..Len(out) : out[p] # NEWLINE_BYTE
            /\ codec.input = A28 \o <<" ","B","B">> =>
                   out = [i \in 1..28 |-> REVERSE_CHARACTER_MAP[<<"A">>]]
                             \o <<NEWLINE_BYTE>>
                             \o [i \in 1..2 |-> REVERSE_CHARACTER_MAP[<<"B">>]]
                             \o <<0>>

\* C13: a control code at the place of a command whose arguments are cut
\* short by the end of the buffer gives the text decoded before it followed
\* by <Malformed Code 0xNN> of its opcode, and nothing after: the bytes that
\* are present are passed over. The place of a command is one before which
\* the buffer decodes to its end (a letter appended there is decoded as
\* that letter).
C13_MalformedCode ==
    codec.op = "decode" =>
        \A k \in 1..(Len(codec.input) - 1) :
            LET before == SubSeq(codec.input, 1, k - 1)
                command == codec.input[k + 1]
                present == Len(codec.input) - (k + 1)
                decoded == parse_ac_text(before)
                Decodable ==
                    /\ ~decoded.raised
                    /\ parse_ac_text(before \o <<72>>)
                           = Returned(decoded.value \o <<"H">>)
            IN  ( /\ Decodable
                  /\ codec.input[k] = PREFIX_BYTE
                  /\ command # 0
                  /\ TableGet(CODE_ARG_COUNT, command, 0) > present )
                => codec.output
                       = Returned(decoded.value \o <<"<","M","a","l","f","o","r","m","e","d"," ","C","o","d","e"," ","0","x">>
                                      \o ZFill(HexStr(command), 2) \o <<">">>)

\* A letter, then a code of three arguments with one of them present
C13_Witness ==
    /\ codec.op = "decode"
    /\ codec.input = <<72, PREFIX_BYTE, 12, 1>>
    /\ codec.output = Returned(<<"H","<","M","a","l","f","o","r","m","e","d"," ","C","o","d","e"," ","0","x","0","C",">">>)

\* C14: parse_ac_text stops at the first zero byte at the place of a glyph
\* and gives the text decoded before it, whatever the bytes after it; the
\* prefix byte followed by a zero byte gives that text followed by
\* <End Conversation>, and stops as well.
C14_Terminator ==
    codec.op = "decode" =>
        \A k \in 1..Len(codec.input) :
            LET before == SubSeq(codec.input, 1, k - 1)
                decoded == parse_ac_text(before)
                Decodable ==
                    /\ ~decoded.raised
                    /\ parse_ac_text(before \o <<72>>)
                           = Returned(decoded.value \o <<"H">>)
            IN  Decodable =>
                    /\ codec.input[k] = 0 => codec.output = decoded
                    /\ ( /\ codec.input[k] = PREFIX_BYTE
                          /\ k < Len(codec.input)
                          /\ codec.input[k + 1] = 0 )
                       => codec.output
                              = Returned(decoded.value \o <<"<","E","n","d"," ","C","o","n","v","e","r","s","a","t","i","o","n",">">>)

\* A letter, the terminator, then bytes that are not decoded
C14_Witness ==
    /\ codec.op = "decode"
    /\ codec.input = <<72, 0, 72, PREFIX_BYTE>>
    /\ codec.output = Returned(<<"H">>)

\* C15: when a channel that awaits the resolution of a choice observes a
\* text without <Open Choice Menu>, menu_injected and
\* awaiting_choice_resolution are cleared, and chatty_requested is set only
\* if the visible text is not empty and differs from last_visible_text.
C15_ChoiceResolution ==
    ( /\ observed.addr # 0
      /\ observed.before.awaiting_choice_resolution
      /\ ~Contains(observed.text, OPEN_CHOICE_MENU) )
    => /\ ~observed.after.menu_injected
       /\ ~observed.after.awaiting_choice_resolution
       /\ ( observed.after.chatty_requested
              /\ ~observed.before.chatty_requested )
          => LET visible == Strip(strip_control_codes(observed.text))
             IN  /\ visible # <<>>
                 /\ visible # observed.before.last_visible_text

\* C16: an iteration that finds the suppression window of its address open
\* leaves the channel's lines_seen, last_visible_text, ready_for_chatty,
\* menu_injected, awaiting_choice_resolution and chatty_requested as they
\* were when its text has no <End Conversation>, and clears the window and
\* resets the channel when it has.
C16_SuppressedKeepsState ==
    report.kind = "suppressed" =>
        LET before == observed.before
            state == conversation_state[report.addr]
        IN  IF Contains(observed.text, END_CONVERSATION)
            THEN /\ suppress_until_by_addr[report.addr] = 0
                 /\ state = NewConversationState
            ELSE /\ state.lines_seen = before.lines_seen
                 /\ state.last_visible_text = before.last_visible_text
                 /\ state.ready_for_chatty = before.ready_for_chatty
                 /\ state.menu_injected = before.menu_injected
                 /\ state.awaiting_choice_resolution
                        = before.awaiting_choice_resolution
                 /\ state.chatty_requested = before.chatty_requested

\* C17: an iteration that gets past the suppression test and writes no
\* injected menu begins a generation exactly when the channel has
\* chatty_requested set and awaiting_choice_resolution clear, no generation
\* is in progress for the address and GLOBAL_GENERATION_LOCK is free; the
\* iteration that begins one clears chatty_requested.
C17_GenerationGate ==
    [][ ( /\ pc = "poll"
          /\ report'.kind \in {"begin_generation", "no_generation"} )
        => LET addr == addresses[addr_idx]
               state == observed'.after
           IN  /\ observed'.addr = addr
               /\ (report'.kind = "begin_generation")
                      <=> ( /\ state.chatty_requested
                            /\ ~state.awaiting_choice_resolution
                            /\ ~generation_in_progress[addr]
                            /\ ~lock_locked )
               /\ report'.kind = "begin_generation"
                      => /\ ~conversation_state'[addr].chatty_requested
                         /\ generation_in_progress'[addr]
                         /\ pc' = "generate"
      ]_vars

\* A generation has begun for a channel that asked for one
C17_Witness ==
    /\ report.kind = "begin_generation"
    /\ observed.after.chatty_requested
    /\ ~conversation_state[report.addr].chatty_requested
    /\ pc = "generate"

\* C18: the loop tries to write an injected menu only in an iteration past
\* the suppression test whose channel has ready_for_chatty set and
\* menu_injected clear and whose text has <Open Choice Menu>; when the write
\* succeeds the channel has menu_injected and awaiting_choice_resolution
\* set, last_text_by_addr holds the decoding of what was written, and the
\* iteration ends without a generation.
C18_Injection ==
    /\ report.menu_write # "none"
           => /\ observed.addr = report.addr
              /\ observed.after.ready_for_chatty
              /\ ~observed.after.menu_injected
              /\ Contains(observed.text, OPEN_CHOICE_MENU)
              /\ ~(now < report.suppress_before)
    /\ (report.kind = "injected") <=> (report.menu_write = "ok")
    /\ report.kind = "injected"
           => LET addr == report.addr
                  modified == inject_feeling_chatty_option(observed.text)
                  predicted == parse_ac_text(encode_ac_text(modified).value)
              IN  /\ conversation_state[addr].menu_injected
                  /\ conversation_state[addr].awaiting_choice_resolution
                  /\ last_text_by_addr[addr] = predicted.value
                  /\ ~generation_in_progress[addr]
                  /\ ~lock_locked
                  /\ pc \in {"poll", "sleep"}

\* An injected menu has been written and recorded
C18_Witness ==
    /\ report.kind = "injected"
    /\ conversation_state[report.addr].awaiting_choice_resolution
    /\ Contains(last_text_by_addr[report.addr], FEELING_CHATTY_LABEL)
    /\ last_text_by_addr[report.addr] # observed.text

\* C19: the text _inject_feeling_chatty_option returns holds the label
\* before the Choice 1 jump tag and still holds, between <Open Choice Menu>
\* and that tag, the labels and tags the original held there.
C19_InjectionKeepsLabels ==
    (codec.op = "inject" /\ codec.output.value # None) =>
        LET original == codec.input
            result == codec.output.value
            choice_one == <<"<","C","h","o","i","c","e"," ","1"," ","J","u","m","p"," ","[">>
            menu_end == Find(original, OPEN_CHOICE_MENU, 0)
                            + Len(OPEN_CHOICE_MENU)
            between == Slice(original, menu_end,
                             Find(original, choice_one, menu_end))
            tag_at == Find(result, choice_one, menu_end)
        IN  /\ tag_at >= 0
            /\ Contains(Slice(result, menu_end, tag_at), FEELING_CHATTY_LABEL)
            /\ Contains(Slice(result, menu_end, tag_at), Strip(between))

\* C20: when generate_dialogue fails, the iteration writes no generated
\* text to memory, leaves the suppression deadline as it was, reports no
\* generation, leaves menu_injected and awaiting_choice_resolution clear,
\* releases the flag and the lock, and goes on to the next address.
C20_GenerationFailure ==
    [][ ( /\ pc = "generate"
          /\ report'.kind = "generation"
          /\ report'.llm_text = None )
        => LET addr == addresses[addr_idx]
           IN  /\ memory' = memory
               /\ suppress_until_by_addr' = suppress_until_by_addr
               /\ ~report'.did_generate
               /\ report'.write = "none"
               /\ last_text_by_addr'[addr] = text
               /\ ~conversation_state'[addr].menu_injected
               /\ ~conversation_state'[addr].awaiting_choice_resolution
               /\ ~generation_in_progress'[addr]
               /\ ~lock_locked'
               /\ pc' \in {"poll", "sleep"}
      ]_vars

\* A generation has failed and the loop has gone on
C20_Witness ==
    /\ report.kind = "generation"
    /\ report.llm_text = None
    /\ ~report.did_generate
    /\ ~lock_locked
    /\ pc \in {"poll", "sleep"}

\* C21: a generation that was written leaves in last_text_by_addr the
\* decoding of encode_ac_text of the generated text; the next iteration for
\* the address that reads those bytes back, print_all being off, finds the
\* text unchanged and does not call observe_text.
C21_OwnWriteNotNovel ==
    [][ /\ ( /\ pc = "generate"
              /\ report'.kind = "generation"
              /\ report'.write = "ok" )
           => /\ memory'[report'.addr]
                     = WriteMemory(memory[report'.addr],
                                   encode_ac_text(report'.llm_text).value)
              /\ last_text_by_addr'[report'.addr]
                     = parse_ac_text(
                           encode_ac_text(report'.llm_text).value).value
        /\ ( /\ pc = "poll"
              /\ report.kind = "generation"
              /\ report.write = "ok"
              /\ addresses[addr_idx] = report.addr
              /\ ~print_all
              /\ <<pc, addr_idx>>' # <<pc, addr_idx>>
              /\ report'.kind # "absent"
              /\ LET written == encode_ac_text(report.llm_text).value
                 IN  SubSeq(memory[report.addr], 1, Len(written)) = written )
           => /\ report'.kind = "unchanged"
              /\ observed' = NotObserved
              /\ conversation_state' = conversation_state
              /\ last_text_by_addr' = last_text_by_addr
              /\ memory' = memory
      ]_vars

\* The iteration after a written generation has read the text back and
\* skipped it, inside the suppression window
C21_Witness ==
    /\ report.kind = "unchanged"
    /\ ~print_all
    /\ \E addr \in AddressSet :
           /\ last_text_by_addr[addr] = <<"M","e","o","w","!">>
           /\ parse_ac_text(ReadMemory(memory[addr], per_read_size))
                  = Returned(<<"M","e","o","w","!">>)
           /\ now < suppress_until_by_addr[addr]

\* C22: an iteration whose read gives nothing, or whose text equals
\* last_text_by_addr of its address while print_all is off, leaves the
\* channel, last_text_by_addr, the suppression deadline and the in-flight
\* flag of the address as they were and writes nothing to memory.
C22_SkippedIterationChangesNothing ==
    [][ ( /\ pc = "poll"
          /\ <<pc, addr_idx>>' # <<pc, addr_idx>>
          /\ \/ report'.kind = "absent"
             \/ /\ ~print_all
                /\ parse_ac_text(ReadMemory(memory[addresses[addr_idx]],
                                            per_read_size))
                       = Returned(last_text_by_addr[addresses[addr_idx]]) )
        => /\ conversation_state' = conversation_state
           /\ last_text_by_addr' = last_text_by_addr
           /\ suppress_until_by_addr' = suppress_until_by_addr
           /\ generation_in_progress' = generation_in_progress
           /\ lock_locked' = lock_locked
           /\ memory' = memory
           /\ observed' = NotObserved
           /\ report'.kind \in {"absent", "unchanged"}
      ]_vars

\* The text at the address is the last text, which is not the last visible
\* line of the channel, and the iteration has skipped it
C22_Witness ==
    /\ report.kind = "unchanged"
    /\ ~print_all
    /\ conversation_state[report.addr].lines_seen >= 1
    /\ last_text_by_addr[report.addr]
           # conversation_state[report.addr].last_visible_text

\* C23: when the write of an injected menu fails, the channel's
\* menu_injected and awaiting_choice_resolution stay false and
\* last_text_by_addr does not take the predicted text of the injected menu.
C23_FailedInjectionWrite ==
    report.menu_write = "failed" =>
        LET addr == report.addr
            modified == inject_feeling_chatty_option(observed.text)
        IN  /\ observed.addr = addr
            /\ ~conversation_state[addr].menu_injected
            /\ ~conversation_state[addr].awaiting_choice_resolution
            /\ last_text_by_addr[addr]
                   # parse_ac_text(encode_ac_text(modified).value).value
            /\ report.kind \in {"begin_generation", "no_generation"}

\* The menu was read, the write of the injected menu failed, and the text
\* read is the last text
C23_Witness ==
    /\ report.menu_write = "failed"
    /\ report.kind = "no_generation"
    /\ Contains(observed.text, OPEN_CHOICE_MENU)
    /\ last_text_by_addr[report.addr] = observed.text
    /\ ~conversation_state[report.addr].menu_injected

\* C24: for a recognized tag encode_ac_text writes the prefix byte, the
\* opcode and as many argument bytes as CODE_ARG_COUNT gives the opcode, a
\* tag with several values in one pair of brackets included; a tag that is
\* not recognized adds no byte.
C24_EncodedArgumentLength ==
    ( /\ codec.op = "encode"
      /\ codec.size = 1
      /\ codec.input[1] = "<"
      /\ ~codec.output.raised ) =>
        LET base_tag == BaseTag(codec.input)
            commands == {k \in DOMAIN CONTROL_CODES :
                            BaseTag(CONTROL_CODES[k]) = base_tag}
            out == codec.output.value
        IN  /\ commands = {} => out = <<0>>
            /\ commands # {} =>
                   \E command \in commands :
                       /\ Len(out)
                              = 2 + TableGet(CODE_ARG_COUNT, command, 0) + 1
                       /\ SubSeq(out, 1, 2) = <<PREFIX_BYTE, command>>
                       /\ out[Len(out)] = 0
            /\ codec.input = <<"<","S","e","t"," ","D","e","m","o"," ","O","r","d","e","r"," ","[","0","1",","," ","0","2",","," ","0","3","]",">">>
                   => \E command \in commands :
                          out = <<PREFIX_BYTE, command, 1, 2, 3, 0>>

\* C25: no character of a text is encoded as byte 0 or as PREFIX_BYTE: in
\* the buffer encode_ac_text gives for a text without tags the only zero
\* byte is the last one and no byte is PREFIX_BYTE.
C25_ReservedBytes ==
    ( /\ codec.op = "encode"
      /\ ~codec.output.raised
      /\ ~Contains(codec.input, <<"<">>) ) =>
        LET out == codec.output.value
        IN  /\ \A k \in 1..Len(codec.input) :
                   <<codec.input[k]>> \in DOMAIN REVERSE_CHARACTER_MAP
                       => REVERSE_CHARACTER_MAP[<<codec.input[k]>>]
                              \notin {0, PREFIX_BYTE}
            /\ Len(out) >= 1
            /\ out[Len(out)] = 0
            /\ \A p \in 1..(Len(out) - 1) : out[p] \notin {0, PREFIX_BYTE}

\* C26: a channel that is eligible and has no option injected, whose address
\* keeps showing an open choice menu with a Choice 1 jump tag, does not stay
\* so for ever once no suppression window is open: the loop going on and
\* the writes succeeding, the injected menu is written, also when the menu
\* was first read inside a suppression window.
C26_EventualInjection ==
    []<>(~\E addr \in AddressSet :
             /\ conversation_state[addr].ready_for_chatty
             /\ ~conversation_state[addr].menu_injected
             /\ ~Suppressed(now, suppress_until_by_addr[addr])
             /\ pc # "raised"
             /\ LET shown == parse_ac_text(ReadMemory(memory[addr],
                                                       per_read_size)).value
                IN  /\ Contains(shown, OPEN_CHOICE_MENU)
                    /\ Contains(shown, <<"<","C","h","o","i","c","e"," ","1"," ","J","u","m","p"," ","[">>)
                    /\ ~Contains(shown, FEELING_CHATTY_LABEL))

\* C27: whenever the loop stands between two iterations, and while a
\* generation is under way, menu_injected and awaiting_choice_resolution
\* of every channel are equal.
C27_FlagsEqual ==
    \A addr \in AddressSet :
        conversation_state[addr].menu_injected
            = conversation_state[addr].awaiting_choice_resolution

\* Both flags were set by an injection and an <End Conversation> read while
\* they were set has cleared both
C27_Witness ==
    /\ observed.addr # 0
    /\ observed.before.menu_injected
    /\ observed.before.awaiting_choice_resolution
    /\ Contains(observed.text, END_CONVERSATION)
    /\ ~conversation_state[observed.addr].menu_injected
    /\ ~conversation_state[observed.addr].awaiting_choice_resolution

\* C28: a generation begins for an address only when an injected menu has
\* been written for it since its previous generation and since its last
\* reset; so a channel that never had a menu injected never generates, and
\* one injection gives at most one generation.
C28_GenerationNeedsInjection ==
    [][ ( /\ pc = "poll"
          /\ report'.kind = "begin_generation" )
        => /\ report'.addr \in report.injected_since
           /\ report'.addr \notin report'.injected_since
      ]_vars

\* A generation has begun, and the injection before it is used up
C28_Witness ==
    /\ report.kind = "begin_generation"
    /\ pc = "generate"
    /\ report.addr \notin report.injected_since
    /\ ~conversation_state[report.addr].chatty_requested
    /\ ~conversation_state[report.addr].menu_injected

\* C29: in every state of a channel lines_seen >= 2 implies
\* ready_for_chatty and ready_for_chatty implies lines_seen >= 1; so no
\* injected menu is written for a channel that has seen no line since its
\* last reset.
C29_EligibilityAndCounter ==
    /\ \A addr \in AddressSet :
           LET state == conversation_state[addr]
           IN  /\ state.lines_seen >= 2 => state.ready_for_chatty
               /\ state.ready_for_chatty => state.lines_seen >= 1
    /\ report.kind = "injected"
           => /\ observed.after.lines_seen >= 1
              /\ conversation_state[report.addr].lines_seen >= 1

\* A menu read after one line made the channel eligible, and the injected
\* menu was written with the counter at one
C29_Witness ==
    /\ report.kind = "injected"
    /\ conversation_state[report.addr].lines_seen = 1
    /\ conversation_state[report.addr].ready_for_chatty
    /\ ~observed.before.ready_for_chatty
====
